---- MODULE Spec2Model ----
(***************************************************************************)
(* A model of the lydata library (rmnldwg/lydata):                         *)
(*   - lydata/validator.py : transform_to_lyprox and its helpers,          *)
(*                           construct_schema, validate_datasets           *)
(*   - lydata/accessor.py  : the query algebra (Q, AndQ, OrQ, NotQ, NoneQ) *)
(*                           and LyDataAccessor.validate                   *)
(* Each subsystem has its own specification (SpecT, SpecV, SpecB, SpecQ);  *)
(* the variables of the other subsystems stay at their idle values.        *)
(***************************************************************************)
EXTENDS Integers, Sequences, FiniteSets, TLC

VARIABLES
    \* ---- transform_to_lyprox (validator.py) ----
    t_pc,        \* "idle" | "start" | "loop" | "done" | "raised"
    t_entries,   \* the (path, value) entries the input mapping spec is built from
    raw,         \* the raw table: a sequence of rows [a |-> Int, b |-> Int]
    column_map,  \* the local variable column_map (nested at first, then flat)
    processed,   \* the local variable processed: destination columns in order
    t_calls,     \* log of the func(vals.., kwargs..) calls made so far
    t_err,       \* the exception that left transform_to_lyprox, if any
    t_i,         \* position of the for loop over column_map.items()
    \* ---- LyDataAccessor.validate (accessor.py) ----
    v_pc,        \* "idle" | "start" | "constructed" | "passed" | "raised"
    v_table,     \* self._obj, the table under validation
    v_modalities,\* the argument `modalities` (None or a list of names)
    v_schema,    \* the local variable lydata_schema
    v_result,    \* the table validate returned, if any
    v_err,       \* the SchemaError that left validate, if any
    \* ---- validate_datasets (validator.py) ----
    b_pc,        \* "idle" | "start" | "iterating" | "loaded" | "done" | "raised"
    b_datasets,  \* the datasets available_datasets yields, in its order
    b_schema,    \* the local variable lydata_schema
    b_i,         \* how many datasets the for loop has taken from the generator
    dataset,     \* the local variable dataset: the table loaded last
    b_loaded,    \* log of the load calls: positions of the datasets
    b_validated, \* log of the validate calls: positions of the datasets
    b_err,       \* the exception that left validate_datasets, if any
    \* ---- the query algebra (accessor.py) ----
    q_pc,        \* "idle" | "start" | "executed" | "raised" | "queried" |
                 \* "query_raised" | "portioned" | "portion_raised"
    q_df,        \* the table df a predicate is executed on
    q_query,     \* the predicate object
    q_mask,      \* the Series execute returned, if any
    q_err,       \* the exception that left execute, query or portion, if any
    q_given,     \* the argument `given` of portion
    q_out,       \* what query (a table) or portion (a QueryPortion) returned
    \* ---- QueryPortion (accessor.py) ----
    p_pc,        \* "idle" | "start" | "constructed" | "inverted" |
                 \* "inverted_twice" | "raised"
    p_args,      \* the arguments <<match, total>> of QueryPortion(match, total)
    p_portion,   \* the QueryPortion object at hand
    p_err,       \* the exception that left the constructor, if any
    \* ---- LyDataAccessor.combine (accessor.py) ----
    c_pc,          \* "idle" | "start" | "combined" | "raised"
    c_df,          \* the table whose diagnoses are combined
    c_modalities,  \* the argument modalities: None or a dict of ModalityConfig
    c_method,      \* the argument method
    c_result,      \* the table combine returned
    c_err,         \* the exception that left combine, if any
    \* ---- ModalityConfig (utils.py) ----
    m_pc,      \* "idle" | "start" | "constructed" | "raised" | "combined"
    m_args,    \* the arguments <<spec, sens, kind>> of ModalityConfig
    m_config,  \* the ModalityConfig object, once constructed
    m_out,     \* what combine returned for a dict with that object
    m_err,     \* the exception that left the constructor, if any
    \* ---- LyDataAccessor.infer_sublevels (accessor.py) ----
    i_pc,      \* "idle" | "start" | "inferred" | "superlevels_inferred"
    i_df,      \* the table whose sublevels are inferred
    i_args,    \* the arguments modalities, sides and subdivisions
    i_result,  \* the table infer_sublevels returned
    \* ---- calls on table objects (accessor.py, utils.py) ----
    l_pc,      \* "idle" | "start" | "copied" | "superlevels_merged" |
               \* "levels_inferred" | "combined" | "returned" | "raised" |
               \* "applied_again"
    l_op,      \* the function that is called
    l_args,    \* its arguments: the tables as they are at the call, and the predicates
    l_heap,    \* the table objects; the argument tables are the first ones
    l_result,  \* the local variable result: a table object, 0 before it is set
    l_steps,   \* the inference and fusion steps made so far, each with the table it read
    l_out,     \* what the call returned: a table object or a QueryPortion
    l_err,     \* the exception that left the call, if any
    \* ---- LyDatasetConfig.load, step by step (loader.py) ----
    d_pc,           \* "idle" | "start" | "except" | "loaded" | "returned" | "raised"
    d_conf,         \* the LyDatasetConfig whose load is called
    d_skip_disk,    \* the argument skip_disk
    d_load_kwargs,  \* the keyword arguments passed on to read_csv
    d_disk,         \* what read_csv of the path does: a table or an exception
    d_remote,       \* what read_csv of the URL does: a table or an exception
    d_reads,        \* the calls of read_csv made so far
    d_df,           \* the table read, then the table returned
    d_err           \* the exception that left load, if any

t_vars == <<t_pc, t_entries, raw, column_map, processed, t_calls, t_err, t_i>>
v_vars == <<v_pc, v_table, v_modalities, v_schema, v_result, v_err>>
b_vars == <<b_pc, b_datasets, b_schema, b_i, dataset, b_loaded, b_validated, b_err>>
q_vars == <<q_pc, q_df, q_query, q_mask, q_err, q_given, q_out>>
p_vars == <<p_pc, p_args, p_portion, p_err>>
c_vars == <<c_pc, c_df, c_modalities, c_method, c_result, c_err>>
m_vars == <<m_pc, m_args, m_config, m_out, m_err>>
i_vars == <<i_pc, i_df, i_args, i_result>>
l_vars == <<l_pc, l_op, l_args, l_heap, l_result, l_steps, l_out, l_err>>
d_vars == <<d_pc, d_conf, d_skip_disk, d_load_kwargs, d_disk, d_remote, d_reads, d_df, d_err>>
vars == <<t_vars, v_vars, b_vars, q_vars, p_vars, c_vars, m_vars, i_vars, l_vars, d_vars>>
not_T == <<v_vars, b_vars, q_vars, p_vars, c_vars, m_vars, i_vars, l_vars, d_vars>>
not_V == <<t_vars, b_vars, q_vars, p_vars, c_vars, m_vars, i_vars, l_vars, d_vars>>
not_B == <<t_vars, v_vars, q_vars, p_vars, c_vars, m_vars, i_vars, l_vars, d_vars>>
not_Q == <<t_vars, v_vars, b_vars, p_vars, c_vars, m_vars, i_vars, l_vars, d_vars>>
not_P == <<t_vars, v_vars, b_vars, q_vars, c_vars, m_vars, i_vars, l_vars, d_vars>>
not_C == <<t_vars, v_vars, b_vars, q_vars, p_vars, m_vars, i_vars, l_vars, d_vars>>
not_M == <<t_vars, v_vars, b_vars, q_vars, p_vars, c_vars, i_vars, l_vars, d_vars>>
not_I == <<t_vars, v_vars, b_vars, q_vars, p_vars, c_vars, m_vars, l_vars, d_vars>>
not_L == <<t_vars, v_vars, b_vars, q_vars, p_vars, c_vars, m_vars, i_vars, d_vars>>
not_D == <<t_vars, v_vars, b_vars, q_vars, p_vars, c_vars, m_vars, i_vars, l_vars>>

-----------------------------------------------------------------------------
(* Bounds of the model.                                                    *)
MaxCols == 2      \* entries of a mapping spec
MaxRows == 2      \* rows of a raw table

-----------------------------------------------------------------------------
(* Python values.  A dict keeps its insertion order, so it is a sequence   *)
(* of <<key, value>> items.                                                *)
PyDict(items) == [kind |-> "dict", items |-> items]
PyCallable(name) == [kind |-> "callable", name |-> name]
PyList(elems) == [kind |-> "list", elems |-> elems]
PyInt(n) == [kind |-> "int", v |-> n]
PyStr(s) == [kind |-> "str", s |-> s]

EmptyDict == PyDict(<<>>)

IsDict(x) == x.kind = "dict"

DictKeys(d) == {d.items[i][1] : i \in 1..Len(d.items)}

HasKey(d, k) == \E i \in 1..Len(d.items) : d.items[i][1] = k

DictGet(d, k) == d.items[CHOOSE i \in 1..Len(d.items) : d.items[i][1] = k][2]

\* d.get(k, default)
DictGetOr(d, k, default) == IF HasKey(d, k) THEN DictGet(d, k) ELSE default

\* d[k] = v : replaces the value of an existing key in place, appends a new key
DictSet(d, k, v) ==
    IF HasKey(d, k)
    THEN PyDict([i \in 1..Len(d.items) |->
                    IF d.items[i][1] = k THEN <<k, v>> ELSE d.items[i]])
    ELSE PyDict(Append(d.items, <<k, v>>))

RECURSIVE DictUpdateFrom(_, _, _)
DictUpdateFrom(d, items, i) ==
    IF i > Len(items) THEN d
    ELSE DictUpdateFrom(DictSet(d, items[i][1], items[i][2]), items, i + 1)

\* d.update(other)
DictUpdate(d, other) == DictUpdateFrom(d, other.items, 1)

-----------------------------------------------------------------------------
(* The strings of the model, as far as the code looks into them.           *)

\* key.startswith("_") for the keys of the model
StartsWithUnderscore(key) == key \in {"__doc__", "_k"}

\* The characters of the strings that occur as values or as searched keys.
Chars(s) ==
    CASE s = "" -> <<>>
      [] s = "text" -> <<"t", "e", "x", "t">>
      [] s = "default" -> <<"d", "e", "f", "a", "u", "l", "t">>
      [] s = "func" -> <<"f", "u", "n", "c">>

\* `sub in s` for two strings: substring search
StrContains(s, sub) ==
    LET cs == Chars(s)
        cu == Chars(sub)
    IN  \E i \in 1..(Len(cs) + 1) :
            /\ i + Len(cu) - 1 <= Len(cs)
            /\ SubSeq(cs, i, i + Len(cu) - 1) = cu

-----------------------------------------------------------------------------
(* validator.py: helpers of transform_to_lyprox                            *)

RECURSIVE delete_private_keys(_)
RECURSIVE CleanItems(_, _, _)

\* the loop of delete_private_keys over nested.items()
CleanItems(items, i, cleaned) ==
    IF i > Len(items) THEN cleaned
    ELSE LET key == items[i][1]
             value == items[i][2]
         IN  IF ~StartsWithUnderscore(key)
             THEN CleanItems(items, i + 1,
                             DictSet(cleaned, key, delete_private_keys(value)))
             ELSE CleanItems(items, i + 1, cleaned)

NotPrivateItem(item) == ~StartsWithUnderscore(item[1])

\* a variant of delete_private_keys: only the keys of the outermost dict are
\* cleaned, the values are kept as they are
delete_private_keys_shallow(nested) ==
    IF IsDict(nested) THEN PyDict(SelectSeq(nested.items, NotPrivateItem)) ELSE nested

delete_private_keys(nested) ==
    IF IsDict(nested) THEN CleanItems(nested.items, 1, EmptyDict) ELSE nested

RECURSIVE flatten(_, _, _)
RECURSIVE FlattenItems(_, _, _, _, _)

\* the loop of flatten over nested.items()
FlattenItems(items, i, prev_key, max_depth, result) ==
    IF i > Len(items) THEN result
    ELSE LET key == items[i][1]
             value == items[i][2]
             is_dict == IsDict(value)
             has_reached_max_depth == Len(prev_key) >= max_depth - 1
         IN  IF is_dict /\ ~has_reached_max_depth
             THEN FlattenItems(items, i + 1, prev_key, max_depth,
                     DictUpdate(result,
                                flatten(value, Append(prev_key, key), max_depth)))
             ELSE FlattenItems(items, i + 1, prev_key, max_depth,
                     DictSet(result, Append(prev_key, key), value))

\* flatten(nested, prev_key, max_depth) with max_depth given: the keys of the
\* result are tuples
flatten(nested, prev_key, max_depth) ==
    FlattenItems(nested.items, 1, prev_key, max_depth, EmptyDict)

RECURSIVE SetDefaultPath(_, _, _)
\* the inner loop of unflatten: walk down keys[:-1] with setdefault(key, {}),
\* then set keys[-1]
SetDefaultPath(current, keys, value) ==
    IF Len(keys) = 1 THEN DictSet(current, keys[1], value)
    ELSE LET sub == DictGetOr(current, keys[1], EmptyDict)
         IN  DictSet(current, keys[1], SetDefaultPath(sub, Tail(keys), value))

RECURSIVE UnflattenFrom(_, _, _)
UnflattenFrom(items, i, result) ==
    IF i > Len(items) THEN result
    ELSE UnflattenFrom(items, i + 1,
                       SetDefaultPath(result, items[i][1], items[i][2]))

unflatten(flat) == UnflattenFrom(flat.items, 1, EmptyDict)

LeafKeys == {"func", "default"}

RECURSIVE get_depth(_)
\* [raised |-> FALSE, depth |-> n], or [raised |-> TRUE] for a ValueError.
\* The for loop returns (or raises) in its first iteration: only the first
\* item of every level is looked at.
get_depth(nested_map) ==
    IF Len(nested_map.items) = 0 THEN [raised |-> TRUE, depth |-> 0]
    ELSE LET value == nested_map.items[1][2] IN
         IF ~IsDict(value) THEN [raised |-> TRUE, depth |-> 0]
         ELSE LET is_leaf == DictKeys(value) \cap LeafKeys # {} IN
              IF is_leaf THEN [raised |-> FALSE, depth |-> 1]
              ELSE LET sub == get_depth(value) IN
                   IF sub.raised THEN sub
                   ELSE [raised |-> FALSE, depth |-> 1 + sub.depth]

-----------------------------------------------------------------------------
(* The callables of the model and the call func(vals.., kwargs..).          *)

RECURSIVE SumSeq(_)
SumSeq(xs) == IF xs = <<>> THEN 0 ELSE Head(xs) + SumSeq(Tail(xs))

\* "add" sums its positional and keyword arguments and never raises;
\* "strict" returns its first argument and raises when that is 0 or missing
\* (as int("") or a failed lookup does in the mapping modules).
Apply(name, vals, kwargs) ==
    LET kwvals == [i \in 1..Len(kwargs.items) |-> kwargs.items[i][2].v] IN
    CASE name = "add" ->
            [raised |-> FALSE, value |-> SumSeq(vals) + SumSeq(kwvals)]
      [] name = "strict" ->
            IF vals = <<>> \/ vals[1] = 0
            THEN [raised |-> TRUE, value |-> 0]
            ELSE [raised |-> FALSE, value |-> vals[1]]

RawColumns == {"a", "b"}

\* a variant of RowValues: every row gets the values of the first row
RowValuesOfFirstRow(rawtable, cols, r) == [j \in 1..Len(cols) |-> rawtable[1][cols[j]]]

\* raw[cols].values[r]
RowValues(rawtable, cols, r) == [j \in 1..Len(cols) |-> rawtable[r][cols[j]]]

-----------------------------------------------------------------------------
(* validator.py: one pass of the for loop of transform_to_lyprox           *)

\* `needle in x`: "yes", "no", or "TypeError" when x is not a container
PyIn(needle, x) ==
    CASE x.kind = "dict" -> IF HasKey(x, needle) THEN "yes" ELSE "no"
      [] x.kind = "list" ->
            IF \E i \in 1..Len(x.elems) : x.elems[i] = needle THEN "yes" ELSE "no"
      [] x.kind = "str" -> IF StrContains(x.s, needle) THEN "yes" ELSE "no"
      [] OTHER -> "TypeError"

\* the list comprehension [func(vals.., kwargs..) for vals in raw[cols].values]:
\* the calls made, in row order, up to and including the first that raises.
\* `failed` says that an exception left the comprehension.
FuncCalls(key, instruction, rawtable) ==
    LET cols == DictGetOr(instruction, "columns", PyList(<<>>))
        kwargs == DictGetOr(instruction, "kwargs", EmptyDict)
        func == DictGet(instruction, "func")
        n == Len(rawtable)
    IN  IF \/ cols.kind # "list"
           \/ \E j \in 1..Len(cols.elems) : cols.elems[j] \notin RawColumns
           \/ (n > 0 /\ (func.kind # "callable" \/ kwargs.kind # "dict"))
        THEN [failed |-> TRUE, values |-> <<>>, calls |-> <<>>]
        ELSE LET res == [r \in 1..n |->
                            Apply(func.name, RowValues(rawtable, cols.elems, r), kwargs)]
                 bad == {r \in 1..n : res[r].raised}
                 first_bad == IF bad = {} THEN 0
                              ELSE CHOOSE r \in bad : \A q \in bad : r <= q
                 made == IF first_bad = 0 THEN n ELSE first_bad
                 calls == [r \in 1..made |->
                              [key |-> key, row |-> r, func |-> func.name,
                               cols |-> cols.elems,
                               vals |-> RowValues(rawtable, cols.elems, r),
                               kwargs |-> kwargs]]
             IN  [failed |-> first_bad # 0,
                  values |-> IF first_bad # 0 THEN <<>>
                             ELSE [r \in 1..n |-> PyInt(res[r].value)],
                  calls |-> calls]

\* a variant of FuncColumn: the except clause swallows the exception and the loop
\* goes on with the next column
FuncColumnIsolated(key, instruction, rawtable) ==
    LET got == FuncCalls(key, instruction, rawtable) IN
    IF got.failed
    THEN [kind |-> "skip", values |-> <<>>, calls |-> got.calls]
    ELSE [kind |-> "func", values |-> got.values, calls |-> got.calls]

\* lines 334-346: the `func` branch with its try/except
FuncColumn(key, instruction, rawtable) ==
    LET got == FuncCalls(key, instruction, rawtable) IN
    IF got.failed
    THEN [kind |-> "ParsingError", values |-> <<>>, calls |-> got.calls]
    ELSE [kind |-> "func", values |-> got.values, calls |-> got.calls]

\* a variant of EvalColumn: an instruction with neither `default` nor `func` is
\* passed over like an empty one
EvalColumnLenient(key, instruction, rawtable) ==
    LET none == <<>> IN
    IF instruction = PyStr("")
    THEN [kind |-> "skip", values |-> none, calls |-> none]
    ELSE LET has_default == PyIn("default", instruction) IN
         IF has_default = "TypeError"
         THEN [kind |-> "TypeError", values |-> none, calls |-> none]
         ELSE IF has_default = "yes"
         THEN IF IsDict(instruction)
              THEN [kind |-> "default",
                    values |-> [r \in 1..Len(rawtable) |-> DictGet(instruction, "default")],
                    calls |-> none]
              ELSE [kind |-> "TypeError", values |-> none, calls |-> none]
         ELSE IF PyIn("func", instruction) = "yes"
         THEN IF IsDict(instruction)
              THEN FuncColumn(key, instruction, rawtable)
              ELSE [kind |-> "AttributeError", values |-> none, calls |-> none]
         ELSE [kind |-> "skip", values |-> none, calls |-> none]

\* the body of the loop for one (multi_idx_col, instruction)
EvalColumn(key, instruction, rawtable) ==
    LET none == <<>> IN
    IF instruction = PyStr("")
    THEN [kind |-> "skip", values |-> none, calls |-> none]
    ELSE LET has_default == PyIn("default", instruction) IN
         IF has_default = "TypeError"
         THEN [kind |-> "TypeError", values |-> none, calls |-> none]
         ELSE IF has_default = "yes"
         THEN IF IsDict(instruction)
              THEN [kind |-> "default",
                    values |-> [r \in 1..Len(rawtable) |-> DictGet(instruction, "default")],
                    calls |-> none]
              ELSE [kind |-> "TypeError", values |-> none, calls |-> none]
         ELSE IF PyIn("func", instruction) = "yes"
         THEN IF IsDict(instruction)
              THEN FuncColumn(key, instruction, rawtable)
              ELSE [kind |-> "AttributeError", values |-> none, calls |-> none]
         ELSE [kind |-> "ParsingError", values |-> none, calls |-> none]

Unfilled == [filled |-> FALSE, values |-> <<>>]

\* pd.DataFrame(columns=pd.MultiIndex.from_tuples(column_map.keys()))
EmptyFrame(cmap) == [i \in 1..Len(cmap.items) |-> <<cmap.items[i][1], Unfilled>>]

\* processed[multi_idx_col] = values
SetColumn(frame, i, values) ==
    [frame EXCEPT ![i] = <<frame[i][1], [filled |-> TRUE, values |-> values]>>]

-----------------------------------------------------------------------------
(* Inputs of transform_to_lyprox: mapping specs and raw tables.            *)

InstrDefault == PyDict(<< <<"default", PyInt(7)>> >>)

InstrAdd ==
    PyDict(<< <<"func", PyCallable("add")>>,
              <<"columns", PyList(<<"a", "b">>)>>,
              <<"kwargs", PyDict(<< <<"k", PyInt(1)>> >>)>> >>)

InstrStrict ==
    PyDict(<< <<"func", PyCallable("strict")>>, <<"columns", PyList(<<"a">>)>> >>)

\* a func whose kwargs hold a key that starts with an underscore
InstrPrivate ==
    PyDict(<< <<"func", PyCallable("add")>>,
              <<"columns", PyList(<<"a">>)>>,
              <<"kwargs", PyDict(<< <<"_k", PyInt(1)>> >>)>> >>)

\* an instruction with neither `default` nor `func`
InstrNoFunc == PyDict(<< <<"columns", PyList(<<"a">>)>> >>)

\* a leaf that documents itself, as the mapping modules do
InstrDocDefault == PyDict(<< <<"__doc__", PyStr("text")>>, <<"default", PyInt(7)>> >>)

Leaves ==
    {InstrDefault, InstrAdd, InstrStrict, InstrPrivate, InstrNoFunc,
     InstrDocDefault, PyStr("")}

\* destination paths: three at the canonical depth 3, one leaf a level higher,
\* one leaf a level deeper
TPaths ==
    {<<"patient", "#", "age">>, <<"patient", "#", "sex">>,
     <<"tumor", "1", "t_stage">>,
     <<"patient", "x">>,
     <<"patient", "#", "n_stage", "deep">>}

DocPaths == {<<"__doc__">>, <<"patient", "__doc__">>, <<"patient", "#", "__doc__">>}

Entries == (TPaths \X Leaves) \cup (DocPaths \X {PyStr("text")})

EntryLists ==
    UNION {{e \in [1..n -> Entries] :
                \A i, j \in 1..n : i # j => e[i][1] # e[j][1]} : n \in 1..MaxCols}

RawRows == {[a |-> 0, b |-> 2], [a |-> 1, b |-> 2]}

RawTables == UNION {[1..n -> RawRows] : n \in 0..MaxRows}

\* the mapping spec handed to transform_to_lyprox
InputMap == unflatten(PyDict(t_entries))

NoError == [type |-> "none", key |-> <<>>]

-----------------------------------------------------------------------------
(* validator.py: transform_to_lyprox, step by step                         *)

\* Python's None
None == [kind |-> "None"]

\* no table, no schema: the values of variables that hold nothing yet
NoTable == [kind |-> "no table"]
NoSchema == [kind |-> "no schema"]

\* The accessor's validate is not running.
IdleV ==
    /\ v_pc = "idle"
    /\ v_table = NoTable
    /\ v_modalities = None
    /\ v_schema = NoSchema
    /\ v_result = NoTable
    /\ v_err = NoError

\* validate_datasets is not running.
IdleB ==
    /\ b_pc = "idle"
    /\ b_datasets = <<>>
    /\ b_schema = NoSchema
    /\ b_i = 0
    /\ dataset = NoTable
    /\ b_loaded = <<>>
    /\ b_validated = <<>>
    /\ b_err = NoError

\* no Series
NoMask == [kind |-> "no mask"]

\* No predicate is being executed.
IdleQ ==
    /\ q_pc = "idle"
    /\ q_df = NoTable
    /\ q_query = None
    /\ q_mask = NoMask
    /\ q_err = NoError
    /\ q_given = None
    /\ q_out = NoTable

\* No QueryPortion is being constructed.
IdleP ==
    /\ p_pc = "idle"
    /\ p_args = <<0, 0>>
    /\ p_portion = None
    /\ p_err = NoError

\* combine is not running.
IdleC ==
    /\ c_pc = "idle"
    /\ c_df = NoTable
    /\ c_modalities = None
    /\ c_method = ""
    /\ c_result = NoTable
    /\ c_err = NoError

\* No ModalityConfig is being constructed.
IdleM ==
    /\ m_pc = "idle"
    /\ m_args = <<0, 0, "">>
    /\ m_config = None
    /\ m_out = NoTable
    /\ m_err = NoError

\* No inference is running.
IdleI ==
    /\ i_pc = "idle"
    /\ i_df = NoTable
    /\ i_args = None
    /\ i_result = NoTable

\* No operation on a table object is running.
IdleL ==
    /\ l_pc = "idle"
    /\ l_op = ""
    /\ l_args = None
    /\ l_heap = <<>>
    /\ l_result = 0
    /\ l_steps = <<>>
    /\ l_out = None
    /\ l_err = NoError

\* No load is being made step by step.
IdleD ==
    /\ d_pc = "idle"
    /\ d_conf = None
    /\ d_skip_disk = FALSE
    /\ d_load_kwargs = None
    /\ d_disk = None
    /\ d_remote = None
    /\ d_reads = <<>>
    /\ d_df = NoTable
    /\ d_err = NoError

InitT ==
    /\ t_pc = "start"
    /\ t_entries \in EntryLists
    /\ raw \in RawTables
    /\ column_map = InputMap
    /\ processed = <<>>
    /\ t_calls = <<>>
    /\ t_err = NoError
    /\ t_i = 0
    /\ IdleV
    /\ IdleB
    /\ IdleQ
    /\ IdleP
    /\ IdleC
    /\ IdleM
    /\ IdleI
    /\ IdleL
    /\ IdleD

\* lines 318-325 when get_depth returns
T_Prepare ==
    /\ t_pc = "start"
    /\ LET stripped == delete_private_keys(column_map)
           instruction_depth == get_depth(stripped)
           flat == IF instruction_depth.depth > 1
                   THEN flatten(stripped, <<>>, instruction_depth.depth)
                   ELSE stripped
       IN  /\ ~instruction_depth.raised
           /\ column_map' = flat
           /\ processed' = EmptyFrame(flat)
    /\ t_i' = 1
    /\ t_pc' = "loop"
    /\ UNCHANGED <<t_entries, raw, t_calls, t_err>>
    /\ UNCHANGED not_T

\* lines 318-319 when get_depth raises its ValueError
T_PrepareRaises ==
    /\ t_pc = "start"
    /\ get_depth(delete_private_keys(column_map)).raised
    /\ t_err' = [type |-> "ValueError", key |-> <<>>]
    /\ t_pc' = "raised"
    /\ UNCHANGED <<t_entries, raw, column_map, processed, t_calls, t_i>>
    /\ UNCHANGED not_T

InLoop == t_pc = "loop" /\ t_i \in 1..Len(column_map.items)

CurKey == column_map.items[t_i][1]

CurInstruction == column_map.items[t_i][2]

CurOutcome == EvalColumn(CurKey, CurInstruction, raw)

\* lines 328-329: instruction == "" -> continue
T_Skip ==
    /\ InLoop
    /\ CurOutcome.kind = "skip"
    /\ t_i' = t_i + 1
    /\ UNCHANGED <<t_pc, t_entries, raw, column_map, processed, t_calls, t_err>>
    /\ UNCHANGED not_T

\* lines 331-332
T_Default ==
    /\ InLoop
    /\ CurOutcome.kind = "default"
    /\ processed' = SetColumn(processed, t_i, CurOutcome.values)
    /\ t_i' = t_i + 1
    /\ UNCHANGED <<t_pc, t_entries, raw, column_map, t_calls, t_err>>
    /\ UNCHANGED not_T

\* lines 334-342 when no call raises
T_Func ==
    /\ InLoop
    /\ CurOutcome.kind = "func"
    /\ processed' = SetColumn(processed, t_i, CurOutcome.values)
    /\ t_calls' = t_calls \o CurOutcome.calls
    /\ t_i' = t_i + 1
    /\ UNCHANGED <<t_pc, t_entries, raw, column_map, t_err>>
    /\ UNCHANGED not_T

\* lines 339-346: an exception inside the try block
T_FuncRaises ==
    /\ InLoop
    /\ CurOutcome.kind = "ParsingError"
    /\ PyIn("func", CurInstruction) = "yes"
    /\ t_calls' = t_calls \o CurOutcome.calls
    /\ t_err' = [type |-> "ParsingError", key |-> CurKey]
    /\ t_pc' = "raised"
    /\ UNCHANGED <<t_entries, raw, column_map, processed, t_i>>
    /\ UNCHANGED not_T

\* lines 348-352: neither `default` nor `func`
T_Malformed ==
    /\ InLoop
    /\ CurOutcome.kind = "ParsingError"
    /\ PyIn("func", CurInstruction) = "no"
    /\ t_err' = [type |-> "ParsingError", key |-> CurKey]
    /\ t_pc' = "raised"
    /\ UNCHANGED <<t_entries, raw, column_map, processed, t_calls, t_i>>
    /\ UNCHANGED not_T

\* lines 331-337 on an instruction that is no dict: the `in` test or the
\* lookup raises outside the try block
T_NotADict ==
    /\ InLoop
    /\ CurOutcome.kind \in {"TypeError", "AttributeError"}
    /\ t_err' = [type |-> CurOutcome.kind, key |-> <<>>]
    /\ t_pc' = "raised"
    /\ UNCHANGED <<t_entries, raw, column_map, processed, t_calls, t_i>>
    /\ UNCHANGED not_T

\* line 354
T_Return ==
    /\ t_pc = "loop"
    /\ t_i > Len(column_map.items)
    /\ t_pc' = "done"
    /\ UNCHANGED <<t_entries, raw, column_map, processed, t_calls, t_err, t_i>>
    /\ UNCHANGED not_T

NextT ==
    \/ T_Prepare
    \/ T_PrepareRaises
    \/ T_Skip
    \/ T_Default
    \/ T_Func
    \/ T_FuncRaises
    \/ T_Malformed
    \/ T_NotADict
    \/ T_Return

SpecT == InitT /\ [][NextT]_vars

-----------------------------------------------------------------------------
(* validator.py: transform_to_lyprox as one call: what it returns or raises *)
(* for a raw table and a mapping spec.                                     *)

RECURSIVE RunLoop(_, _, _, _, _)
RunLoop(cmap, rawtable, i, frame, calls) ==
    IF i > Len(cmap.items)
    THEN [pc |-> "done", err |-> NoError, processed |-> frame, calls |-> calls]
    ELSE LET key == cmap.items[i][1]
             instruction == cmap.items[i][2]
             got == EvalColumn(key, instruction, rawtable)
         IN  CASE got.kind = "skip" -> RunLoop(cmap, rawtable, i + 1, frame, calls)
               [] got.kind \in {"default", "func"} ->
                    RunLoop(cmap, rawtable, i + 1, SetColumn(frame, i, got.values),
                            calls \o got.calls)
               [] got.kind = "ParsingError" ->
                    [pc |-> "raised", err |-> [type |-> "ParsingError", key |-> key],
                     processed |-> frame, calls |-> calls \o got.calls]
               [] OTHER ->
                    [pc |-> "raised", err |-> [type |-> got.kind, key |-> <<>>],
                     processed |-> frame, calls |-> calls]

transform_to_lyprox(rawtable, cmap) ==
    LET stripped == delete_private_keys(cmap)
        instruction_depth == get_depth(stripped)
    IN  IF instruction_depth.raised
        THEN [pc |-> "raised", err |-> [type |-> "ValueError", key |-> <<>>],
              processed |-> <<>>, calls |-> <<>>]
        ELSE LET flat == IF instruction_depth.depth > 1
                         THEN flatten(stripped, <<>>, instruction_depth.depth)
                         ELSE stripped
             IN  RunLoop(flat, rawtable, 1, EmptyFrame(flat), <<>>)

-----------------------------------------------------------------------------
(* Vocabulary of the claims about transform_to_lyprox.                     *)

IsDocEntry(e) == e[1][Len(e[1])] = "__doc__"

IsDestEntry(e) == ~IsDocEntry(e)

\* a leaf of the spec: a dict that holds `default` or `func`
IsLeafDict(v) == IsDict(v) /\ DictKeys(v) \cap LeafKeys # {}

\* a dict instruction with neither `default` nor `func`
IsMalformed(v) == IsDict(v) /\ DictKeys(v) \cap LeafKeys = {}

\* the loop over the flat column_map has been entered
Looped == t_i >= 1

NCols == Len(column_map.items)

Filled(j) == processed[j][2].filled

\* column j is a func column whose func raises for some row of raw
ColumnFails(j) ==
    LET instruction == column_map.items[j][2] IN
    /\ IsDict(instruction)
    /\ HasKey(instruction, "func")
    /\ ~HasKey(instruction, "default")
    /\ LET cols == DictGetOr(instruction, "columns", PyList(<<>>))
           kwargs == DictGetOr(instruction, "kwargs", EmptyDict)
       IN  \E r \in 1..Len(raw) :
              Apply(DictGet(instruction, "func").name,
                    RowValues(raw, cols.elems, r), kwargs).raised

\* column j could be evaluated on its own: a `default` column, or a func
\* column whose func raises for no row
ColumnEvaluable(j) == IsLeafDict(column_map.items[j][2]) /\ ~ColumnFails(j)

CallsFor(j) == {c \in 1..Len(t_calls) : t_calls[c].key = column_map.items[j][1]}

-----------------------------------------------------------------------------
(* C2 - C5                                                                 *)

DestEntries == SelectSeq(t_entries, IsDestEntry)

NDest == Len(DestEntries)

\* the leaves of the spec do not all sit at the same depth
MixedDepth ==
    \E i, j \in 1..NDest :
        /\ IsLeafDict(DestEntries[i][2])
        /\ IsLeafDict(DestEntries[j][2])
        /\ Len(DestEntries[i][1]) # Len(DestEntries[j][1])

\* every destination of the spec is keyed by a 3-part path
UniformSpec == NDest >= 1 /\ \A i \in 1..NDest : Len(DestEntries[i][1]) = 3

\* a well-formed spec: 3-part paths whose leaves all hold `default` or `func`
WellFormed == UniformSpec /\ \A i \in 1..NDest : IsLeafDict(DestEntries[i][2])

NothingEvaluated == t_calls = <<>> /\ \A j \in 1..Len(processed) : ~Filled(j)

\* C2: for every nested mapping spec whose leaves do not all sit at the same
\* depth, a configuration error is raised before any row is processed: no
\* func is called, no destination column is filled, no table is returned.
C2_MixedDepthRaisedUpFront ==
    MixedDepth => (NothingEvaluated /\ t_pc # "done")

\* C3 as the spec states it: when the error for an instruction with neither
\* `default` nor `func` is raised, no destination column has been evaluated.
C3_MalformedRaisedUpFront ==
    \A i \in 1..NDest :
        (/\ IsMalformed(DestEntries[i][2])
         /\ t_pc = "raised"
         /\ t_err = [type |-> "ParsingError", key |-> DestEntries[i][1]])
            => NothingEvaluated

\* C3 as amended: in a spec of 3-part paths, an instruction with neither
\* `default` nor `func` always makes the transformation fail, yet not up
\* front.  Unless get_depth fails on the first path of the spec (ValueError,
\* nothing evaluated), the ParsingError naming its key is raised when the loop
\* reaches it: the columns before it have been evaluated, no column after it
\* is, and no table is returned.
C3_MalformedRaisedInLoop ==
    (UniformSpec /\ \E i \in 1..NDest : IsMalformed(DestEntries[i][2])) =>
        /\ t_pc # "done"
        /\ (t_pc = "raised" /\ ~Looped) =>
              /\ t_err.type = "ValueError"
              /\ NothingEvaluated
        /\ Looped =>
             \A j \in 1..NCols : IsMalformed(column_map.items[j][2]) =>
                /\ t_i <= j
                /\ ~Filled(j)
                /\ (t_pc = "raised" /\ t_i = j) =>
                      /\ t_err = [type |-> "ParsingError", key |-> column_map.items[j][1]]
                      /\ \A k \in 1..(j - 1) : ColumnEvaluable(k) => Filled(k)
                      /\ \A k \in (j + 1)..NCols : ~Filled(k) /\ CallsFor(k) = {}

\* C3's case: the error for a malformed second column is raised after the
\* func of the first column has been called for every row
C3_Witness ==
    /\ UniformSpec
    /\ t_pc = "raised"
    /\ t_i = 2
    /\ IsMalformed(column_map.items[2][2])
    /\ Filled(1)
    /\ t_calls # <<>>

IsPublicItem(item) == ~(item[1] \in {"__doc__", "_k"})

\* the kwargs whose names do not start with an underscore
PublicKwargs(kwargs) == PyDict(SelectSeq(kwargs.items, IsPublicItem))

InstrKwargs(instruction) == DictGetOr(instruction, "kwargs", EmptyDict)

InstrColumns(instruction) == DictGetOr(instruction, "columns", PyList(<<>>)).elems

\* func applied to row r's values of the listed source columns plus kwargs
FuncOfRow(instruction, kwargs, r) ==
    LET cols == InstrColumns(instruction) IN
    PyInt(Apply(DictGet(instruction, "func").name,
                [j \in 1..Len(cols) |-> raw[r][cols[j]]], kwargs).value)

RECURSIVE LeafPaths(_, _)
RECURSIVE LeafPathsFrom(_, _, _)

LeafPathsFrom(items, i, prefix) ==
    IF i > Len(items) THEN <<>>
    ELSE (IF items[i][1] = "__doc__" THEN <<>>
          ELSE LeafPaths(items[i][2], Append(prefix, items[i][1])))
         \o LeafPathsFrom(items, i + 1, prefix)

\* the destinations a nested spec defines, in the order it defines them: the
\* <<path, instruction>> of its leaves, read top to bottom
LeafPaths(v, prefix) ==
    IF IsDict(v) /\ ~IsLeafDict(v)
    THEN LeafPathsFrom(v.items, 1, prefix)
    ELSE << <<prefix, v>> >>

SpecColumns == LeafPaths(InputMap, <<>>)

\* the table of a well-formed spec: its destination columns in the order of
\* the spec, one row per raw row, filled as the instructions say when func
\* gets the kwargs kw(instruction)
TableAsSpecified(kw(_)) ==
    /\ Len(processed) = Len(SpecColumns)
    /\ {SpecColumns[j][1] : j \in 1..Len(SpecColumns)}
          = {DestEntries[j][1] : j \in 1..NDest}
    /\ \A j \in 1..Len(SpecColumns) :
        LET instruction == SpecColumns[j][2] IN
        /\ processed[j][1] = SpecColumns[j][1]
        /\ Len(processed[j][1]) = 3
        /\ Filled(j)
        /\ Len(processed[j][2].values) = Len(raw)
        /\ \A r \in 1..Len(raw) :
              processed[j][2].values[r] =
                 IF HasKey(instruction, "default")
                 THEN DictGet(instruction, "default")
                 ELSE FuncOfRow(instruction, kw(instruction), r)

PublicInstrKwargs(instruction) == PublicKwargs(InstrKwargs(instruction))

\* C4 as the spec states it: a func column holds func applied to the row's
\* source values plus the kwargs of the instruction.
C4_TableAsSpecified ==
    (WellFormed /\ t_pc = "done") => TableAsSpecified(InstrKwargs)

\* C4 as amended: for a well-formed spec the returned table has exactly the
\* destination columns of the spec, in its order, keyed by their 3-part
\* paths, one row per raw row; a `default` column holds the constant, a func
\* column holds func applied to the row's source values plus those kwargs
\* whose names do not start with an underscore.
C4_TableWithPublicKwargs ==
    (WellFormed /\ t_pc = "done") => TableAsSpecified(PublicInstrKwargs)

\* C4's case: a table of two columns, a `default` and a func column, and two
\* different rows has been returned
C4_Witness ==
    /\ WellFormed
    /\ t_pc = "done"
    /\ NDest = 2
    /\ Len(raw) = 2
    /\ raw[1] # raw[2]
    /\ \E j \in 1..2 : HasKey(DestEntries[j][2], "default")
    /\ \E j \in 1..2 : HasKey(DestEntries[j][2], "func")

RECURSIVE WithoutDocs(_)
\* a mapping spec with every documentation key left out, at every level
WithoutDocs(v) ==
    IF ~IsDict(v) THEN v
    ELSE LET kept == {i \in 1..Len(v.items) : v.items[i][1] # "__doc__"}
             nth(n) == CHOOSE i \in kept : Cardinality({k \in kept : k < i}) = n - 1
         IN  PyDict([n \in 1..Cardinality(kept) |->
                        <<v.items[nth(n)][1], WithoutDocs(v.items[nth(n)][2])>>])

DocFreeMap == WithoutDocs(InputMap)

Terminated == t_pc \in {"done", "raised"}

Outcome ==
    [pc |-> t_pc, err |-> t_err, processed |-> processed, calls |-> t_calls]

\* the first half of C5: with and without documentation keys the result is
\* the same
SameAsWithoutDocs == Terminated => Outcome = transform_to_lyprox(raw, DocFreeMap)

\* every call of a func got the source columns of its instruction and
\* kw(kwargs of its instruction)
CallsGet(kw(_)) ==
    \A c \in 1..Len(t_calls) :
        \E i \in 1..NDest :
            /\ DestEntries[i][1] = t_calls[c].key
            /\ t_calls[c].cols = InstrColumns(DestEntries[i][2])
            /\ t_calls[c].kwargs = kw(InstrKwargs(DestEntries[i][2]))

SameKwargs(kwargs) == kwargs

\* C5 as the spec states it: the stripping changes nothing but the
\* documentation keys; source columns and kwargs reach func unchanged.
C5_OnlyDocsStripped == SameAsWithoutDocs /\ CallsGet(SameKwargs)

\* C5 as amended: the result is the same with and without documentation
\* keys at any level; the stripping also removes every other key that
\* starts with an underscore, at any level and inside kwargs: func gets the
\* source columns unchanged and the kwargs without such keys.
C5_PrivateKeysStripped == SameAsWithoutDocs /\ CallsGet(PublicKwargs)

\* C5's case: a spec documented at a nested level has been transformed, and
\* a func whose instruction holds an underscore kwarg has been called
C5_Witness ==
    /\ t_pc = "done"
    /\ \E i \in 1..Len(t_entries) : IsDocEntry(t_entries[i]) /\ Len(t_entries[i][1]) >= 2
    /\ \E c \in 1..Len(t_calls) : t_calls[c].kwargs = EmptyDict
    /\ \E i \in 1..NDest : DestEntries[i][2] = InstrPrivate

-----------------------------------------------------------------------------
(* validator.py: the schema.  A Column is the record of the arguments the  *)
(* code passes to pandera's Column, with pandera's defaults for the others *)
(* (required=True, nullable=False, coerce=False, no check).                *)

NoCheck == [kind |-> "none"]

\* Check.in_range with include_max=False
Check_in_range_exclusive(min_value, max_value) ==
    [kind |-> "in_range", min_value |-> min_value, max_value |-> max_value,
     include_min |-> TRUE, include_max |-> FALSE]

\* Check.in_range(min_value, max_value); both bounds are included by default
Check_in_range(min_value, max_value) ==
    [kind |-> "in_range", min_value |-> min_value, max_value |-> max_value,
     include_min |-> TRUE, include_max |-> TRUE]

Check_greater_than(min_value) == [kind |-> "greater_than", min_value |-> min_value]

Check_str_matches(pattern) == [kind |-> "str_matches", pattern |-> pattern]

Column(dtype, check, required, nullable, coerce) ==
    [dtype |-> dtype, check |-> check, required |-> required,
     nullable |-> nullable, coerce |-> coerce]

\* Column(dtype) and Column(dtype, check)
ColumnOf(dtype, check) == Column(dtype, check, TRUE, FALSE, FALSE)

\* Column(dtype, check, **_NULLABLE_OPTIONAL)
NullableOptional(dtype, check) == Column(dtype, check, FALSE, TRUE, FALSE)

\* a nullable boolean column that is required
_NULLABLE_REQUIRED_BOOLEAN_COLUMN == Column("boolean", NoCheck, TRUE, TRUE, TRUE)

_NULLABLE_OPTIONAL_BOOLEAN_COLUMN == Column("boolean", NoCheck, FALSE, TRUE, TRUE)

_DATE_CHECK == Check_str_matches("^\\d{4}-\\d{2}-\\d{2}$")

_LNLS == <<"I", "Ia", "Ib", "II", "IIa", "IIb", "III", "IV",
           "V", "Va", "Vb", "VI", "VII", "VIII", "IX", "X">>

patient_columns == PyDict(<<
    << <<"patient", "#", "institution">>, ColumnOf("str", NoCheck) >>,
    << <<"patient", "#", "sex">>, ColumnOf("str", Check_str_matches("^(male|female)$")) >>,
    << <<"patient", "#", "age">>, ColumnOf("int", NoCheck) >>,
    << <<"patient", "#", "weight">>, NullableOptional("float", Check_greater_than(0)) >>,
    << <<"patient", "#", "diagnose_date">>, ColumnOf("str", _DATE_CHECK) >>,
    << <<"patient", "#", "alcohol_abuse">>, _NULLABLE_OPTIONAL_BOOLEAN_COLUMN >>,
    << <<"patient", "#", "nicotine_abuse">>, _NULLABLE_OPTIONAL_BOOLEAN_COLUMN >>,
    << <<"patient", "#", "hpv_status">>, _NULLABLE_OPTIONAL_BOOLEAN_COLUMN >>,
    << <<"patient", "#", "neck_dissection">>, _NULLABLE_OPTIONAL_BOOLEAN_COLUMN >>,
    << <<"patient", "#", "tnm_edition">>, ColumnOf("int", Check_in_range(7, 8)) >>,
    << <<"patient", "#", "n_stage">>, ColumnOf("int", Check_in_range(0, 3)) >>,
    << <<"patient", "#", "m_stage">>, ColumnOf("int", Check_in_range(-1, 1)) >>
    >>)

tumor_columns == PyDict(<<
    << <<"tumor", "1", "subsite">>, ColumnOf("str", Check_str_matches("^C\\d{2}(\\.\\d)?$")) >>,
    << <<"tumor", "1", "t_stage">>, ColumnOf("int", Check_in_range(0, 4)) >>,
    << <<"tumor", "1", "stage_prefix">>, ColumnOf("str", Check_str_matches("^(p|c)$")) >>,
    << <<"tumor", "1", "volume">>, NullableOptional("float", Check_greater_than(0)) >>,
    << <<"tumor", "1", "central">>, _NULLABLE_OPTIONAL_BOOLEAN_COLUMN >>,
    << <<"tumor", "1", "extension">>, _NULLABLE_OPTIONAL_BOOLEAN_COLUMN >>
    >>)

Sides == <<"ipsi", "contra">>

\* The two nested for loops of get_modality_columns add one column per side
\* and level, side by side and level by level.  lnls is always the catalogue
\* _LNLS, whose entries are distinct, so every assignment adds a new key.
get_modality_columns(modality, lnls) ==
    PyDict(<< << <<modality, "info", "date">>,
                 NullableOptional("str", _DATE_CHECK) >> >>
           \o [j \in 1..(Len(Sides) * Len(lnls)) |->
                 << <<modality,
                      Sides[((j - 1) \div Len(lnls)) + 1],
                      lnls[((j - 1) % Len(lnls)) + 1]>>,
                    _NULLABLE_OPTIONAL_BOOLEAN_COLUMN >>])

\* DataFrameSchema.add_columns: a new schema of {**schema.columns, **extra};
\* a column that is already there keeps its place and takes the new value
add_columns(schema, extra) ==
    PyDict([i \in 1..Len(schema.items) |->
               IF HasKey(extra, schema.items[i][1])
               THEN <<schema.items[i][1], DictGet(extra, schema.items[i][1])>>
               ELSE schema.items[i]]
           \o SelectSeq(extra.items, LAMBDA item : ~HasKey(schema, item[1])))

RECURSIVE AddModalities(_, _, _, _)
AddModalities(schema, modalities, lnls, i) ==
    IF i > Len(modalities) THEN schema
    ELSE AddModalities(add_columns(schema, get_modality_columns(modalities[i], lnls)),
                       modalities, lnls, i + 1)

construct_schema(modalities, lnls) ==
    AddModalities(add_columns(patient_columns, tumor_columns), modalities, lnls, 1)

\* utils.py: the names of get_default_modalities(), in the order of its dict
DefaultModalities ==
    <<"CT", "MRI", "PET", "FNA", "diagnostic_consensus", "pathology", "pCT">>

-----------------------------------------------------------------------------
(* Tables under validation.  A cell is an integer, a string, a boolean or  *)
(* null; a table has n rows and, for each of its columns, the sequence of  *)
(* that column's cells.                                                    *)

Null == [t |-> "null"]
NA == [t |-> "NA"]          \* the null of the nullable "boolean" dtype
IntCell(n) == [t |-> "int", v |-> n]
StrCell(s) == [t |-> "str", s |-> s]
BoolCell(b) == [t |-> "bool", b |-> b]

IsNull(cell) == cell.t \in {"null", "NA"}

HasColumn(table, key) == key \in DOMAIN table.cols

\* the dtype pandas gives a column that holds these cells
SeriesDtype(cells) ==
    LET ts == {cells[r].t : r \in 1..Len(cells)}
    IN  IF ts = {"int"} THEN "int64"
        ELSE IF ts \subseteq {"int", "null"} THEN "float64"
        ELSE IF ts = {"bool"} THEN "bool"
        ELSE IF ts \subseteq {"bool", "NA"} THEN "boolean"
        ELSE "object"

\* re.match(pattern, s) for the patterns of the schema and the strings of
\* the model's tables
Matches(pattern, s) ==
    CASE pattern = "^(male|female)$" -> s \in {"male", "female"}
      [] pattern = "^\\d{4}-\\d{2}-\\d{2}$" -> s \in {"2020-01-31"}
      [] pattern = "^C\\d{2}(\\.\\d)?$" -> s \in {"C01", "C01.9"}
      [] pattern = "^(p|c)$" -> s \in {"p", "c"}
      [] OTHER -> FALSE

\* pandera: does a non-null cell pass a check
CheckHolds(check, cell) ==
    CASE check.kind = "none" -> TRUE
      [] check.kind = "in_range" ->
            /\ cell.t = "int"
            /\ IF check.include_min THEN cell.v >= check.min_value
                                    ELSE cell.v > check.min_value
            /\ IF check.include_max THEN cell.v <= check.max_value
                                    ELSE cell.v < check.max_value
      [] check.kind = "greater_than" -> cell.t = "int" /\ cell.v > check.min_value
      [] check.kind = "str_matches" -> cell.t = "str" /\ Matches(check.pattern, cell.s)

\* pandera: coerce=True casts the column to its dtype before it is checked.
\* The tables of the model hold only booleans and nulls in the columns the
\* schema coerces to "boolean", a cast that cannot fail.
CoerceCell(column, cell) ==
    IF column.coerce /\ column.dtype = "boolean" /\ cell = Null THEN NA ELSE cell

CoerceCells(column, cells) == [r \in 1..Len(cells) |-> CoerceCell(column, cells[r])]

\* pandera: the dtype check of a column
DtypeOk(column, cells) ==
    CASE column.dtype = "int" -> SeriesDtype(cells) = "int64"
      [] column.dtype = "float" -> SeriesDtype(cells) = "float64"
      [] column.dtype = "str" -> SeriesDtype(cells) = "object"
      [] column.dtype = "boolean" -> SeriesDtype(cells) \in {"bool", "boolean"}

Failure(key, reason, rows) == [column |-> key, reason |-> reason, rows |-> rows]

\* pandera: the checks of one column that is in the table, in the order
\* pandera runs them: nullable, dtype, then the Check on the non-null cells
ColumnFailures(key, column, table) ==
    LET cells == CoerceCells(column, table.cols[key])
        nulls == {r \in 1..Len(cells) : IsNull(cells[r])}
        bad == {r \in 1..Len(cells) : r \notin nulls /\ ~CheckHolds(column.check, cells[r])}
    IN  (IF ~column.nullable /\ nulls # {}
         THEN <<Failure(key, "not_nullable", nulls)>> ELSE <<>>)
        \o (IF ~DtypeOk(column, cells)
            THEN <<Failure(key, "wrong_dtype", {})>> ELSE <<>>)
        \o (IF bad # {} THEN <<Failure(key, "check", bad)>> ELSE <<>>)

\* pandera: the required columns that are not in the table, in schema order
PresenceFailures(schema, table) ==
    LET missing == SelectSeq(schema.items,
                             LAMBDA item : item[2].required /\ ~HasColumn(table, item[1]))
    IN  [i \in 1..Len(missing) |->
            Failure(missing[i][1], "column_not_in_dataframe", {})]

RECURSIVE ConcatFailures(_, _, _)
ConcatFailures(items, table, i) ==
    IF i > Len(items) THEN <<>>
    ELSE ColumnFailures(items[i][1], items[i][2], table)
         \o ConcatFailures(items, table, i + 1)

\* pandera: the failures of the columns that are in the table, in schema order
ComponentFailures(schema, table) ==
    LET failing == SelectSeq(schema.items,
                             LAMBDA item : /\ HasColumn(table, item[1])
                                           /\ ColumnFailures(item[1], item[2], table) # <<>>)
    IN  ConcatFailures(failing, table, 1)

\* everything pandera finds wrong with the table, in the order it looks
Failures(schema, table) ==
    PresenceFailures(schema, table) \o ComponentFailures(schema, table)

\* the table validate returns: the columns the schema coerces are cast
Coerced(schema, table) ==
    [n |-> table.n,
     cols |-> [key \in DOMAIN table.cols |->
                  IF HasKey(schema, key)
                  THEN CoerceCells(DictGet(schema, key), table.cols[key])
                  ELSE table.cols[key]]]

\* DataFrameSchema.validate(check_obj, lazy=...): with lazy=True every failure
\* is collected into one SchemaErrors, otherwise the first failure is raised
\* as a SchemaError
pandera_validate(schema, check_obj, lazy) ==
    LET found == Failures(schema, check_obj)
    IN  IF found = <<>>
        THEN [raised |-> FALSE, result |-> Coerced(schema, check_obj)]
        ELSE [raised |-> TRUE,
              error |-> IF lazy
                        THEN [type |-> "SchemaErrors", failures |-> found]
                        ELSE [type |-> "SchemaError", failures |-> <<found[1]>>]]

\* lydata_schema.validate(table) with lazy=True
validate_lazy(schema, check_obj) == pandera_validate(schema, check_obj, TRUE)

\* lydata_schema.validate(table) as the code calls it: lazy keeps its default
validate(schema, check_obj) == pandera_validate(schema, check_obj, FALSE)

-----------------------------------------------------------------------------
(* The tables and arguments LyDataAccessor.validate is run on: a baseline  *)
(* table that satisfies the schema, changed in a bounded number of places. *)

MaxVRows == 2     \* rows of a table under validation
MaxDev == 2       \* places where a table differs from the baseline

TNM == <<"patient", "#", "tnm_edition">>
NStage == <<"patient", "#", "n_stage">>
MStage == <<"patient", "#", "m_stage">>
TStage == <<"tumor", "1", "t_stage">>
Sex == <<"patient", "#", "sex">>
StageColumns == {TNM, NStage, MStage, TStage}

\* one row that satisfies patient_columns and tumor_columns; the optional
\* columns are absent
BaseRow ==
    ( <<"patient", "#", "institution">> :> StrCell("clb")
   @@ Sex :> StrCell("male")
   @@ <<"patient", "#", "age">> :> IntCell(60)
   @@ <<"patient", "#", "diagnose_date">> :> StrCell("2020-01-31")
   @@ TNM :> IntCell(7)
   @@ NStage :> IntCell(0)
   @@ MStage :> IntCell(-1)
   @@ <<"tumor", "1", "subsite">> :> StrCell("C01")
   @@ TStage :> IntCell(0)
   @@ <<"tumor", "1", "stage_prefix">> :> StrCell("c") )

\* the cells a deviation may write: around both ends of each range, a null,
\* a string no pattern matches, and cells of two modality columns
DevCells ==
    {<<NStage, IntCell(-1)>>, <<NStage, IntCell(3)>>, <<NStage, IntCell(4)>>,
     <<NStage, Null>>,
     <<MStage, IntCell(-2)>>, <<MStage, IntCell(1)>>, <<MStage, IntCell(2)>>,
     <<TStage, IntCell(-1)>>, <<TStage, IntCell(4)>>, <<TStage, IntCell(5)>>,
     <<TNM, IntCell(6)>>, <<TNM, IntCell(8)>>, <<TNM, IntCell(9)>>,
     <<Sex, StrCell("other")>>,
     <<<<"CT", "ipsi", "II">>, BoolCell(TRUE)>>,
     <<<<"CT", "info", "date">>, StrCell("31.01.2020")>>}

Deviations(n) ==
    {[kind |-> "set", row |-> r, col |-> d[1], cell |-> d[2]] :
        r \in 1..n, d \in DevCells}
    \cup {[kind |-> "drop", col |-> c] : c \in StageColumns}

\* at most one deviation per cell
Consistent(devs) ==
    \A d1, d2 \in devs :
        (d1.kind = "set" /\ d2.kind = "set" /\ d1.row = d2.row /\ d1.col = d2.col)
        => d1 = d2

RECURSIVE DevSets(_, _)
DevSets(n, k) ==
    IF k = 0 THEN {{}}
    ELSE LET smaller == DevSets(n, k - 1)
         IN  smaller \cup {D \cup {d} : D \in smaller, d \in Deviations(n)}

MakeTable(n, devs) ==
    LET dropped == {d.col : d \in {x \in devs : x.kind = "drop"}}
        sets == {x \in devs : x.kind = "set"}
        present == ((DOMAIN BaseRow) \cup {d.col : d \in sets}) \ dropped
        CellAt(key, r) ==
            IF \E d \in sets : d.col = key /\ d.row = r
            THEN (CHOOSE d \in sets : d.col = key /\ d.row = r).cell
            ELSE IF key \in DOMAIN BaseRow THEN BaseRow[key] ELSE Null
    IN  [n |-> n, cols |-> [key \in present |-> [r \in 1..n |-> CellAt(key, r)]]]

Tables ==
    {MakeTable(n, devs) : <<n, devs>> \in
        {nd \in UNION {{<<n, D>> : D \in DevSets(n, MaxDev)} : n \in 1..MaxVRows} :
            Consistent(nd[2])}}

\* the values of the argument `modalities`
ModalityArgs ==
    {None, PyList(<<>>), PyList(<<"CT">>), PyList(<<"MRI", "CT", "MRI">>)}

\* bool(x) of None and of a list
Truthy(x) == x.kind = "list" /\ x.elems # <<>>

\* The transform is not running.
IdleT ==
    /\ t_pc = "idle"
    /\ t_entries = <<>>
    /\ raw = <<>>
    /\ column_map = EmptyDict
    /\ processed = <<>>
    /\ t_calls = <<>>
    /\ t_err = NoError
    /\ t_i = 0

-----------------------------------------------------------------------------
(* accessor.py: LyDataAccessor.validate, step by step                      *)

InitV ==
    /\ v_pc = "start"
    /\ v_table \in Tables
    /\ v_modalities \in ModalityArgs
    /\ v_schema = NoSchema
    /\ v_result = NoTable
    /\ v_err = NoError
    /\ IdleT
    /\ IdleB
    /\ IdleQ
    /\ IdleP
    /\ IdleC
    /\ IdleM
    /\ IdleI
    /\ IdleL
    /\ IdleD

\* lines 570-571
V_Construct ==
    /\ v_pc = "start"
    /\ LET modalities == IF Truthy(v_modalities) THEN v_modalities.elems
                         ELSE DefaultModalities
       IN  v_schema' = construct_schema(modalities, _LNLS)
    /\ v_pc' = "constructed"
    /\ UNCHANGED <<v_table, v_modalities, v_result, v_err>>
    /\ UNCHANGED not_V

\* line 572 when the table satisfies the schema
V_Return ==
    /\ v_pc = "constructed"
    /\ LET outcome == validate(v_schema, v_table)
       IN  /\ ~outcome.raised
           /\ v_result' = outcome.result
    /\ v_pc' = "passed"
    /\ UNCHANGED <<v_table, v_modalities, v_schema, v_err>>
    /\ UNCHANGED not_V

\* line 572 when pandera raises
V_Raises ==
    /\ v_pc = "constructed"
    /\ LET outcome == validate(v_schema, v_table)
       IN  /\ outcome.raised
           /\ v_err' = outcome.error
    /\ v_pc' = "raised"
    /\ UNCHANGED <<v_table, v_modalities, v_schema, v_result>>
    /\ UNCHANGED not_V

NextV ==
    \/ V_Construct
    \/ V_Return
    \/ V_Raises

SpecV == InitV /\ [][NextV]_vars

-----------------------------------------------------------------------------
(* Properties of LyDataAccessor.validate and of the schema (SpecV).        *)

Validated == v_pc \in {"passed", "raised"}

\* everything that is wrong with the table under the constructed schema
Violations == Failures(v_schema, v_table)

ViolatingColumns == {Violations[i].column : i \in 1..Len(Violations)}

StageRange(key) ==
    CASE key = NStage -> 0..3
      [] key = MStage -> -1..1
      [] key = TStage -> 0..4
      [] key = TNM -> 7..8

\* every row has its four stage values, each an integer of its range
StagesValid(table) ==
    \A key \in StageColumns :
        /\ HasColumn(table, key)
        /\ \A r \in 1..table.n :
              /\ table.cols[key][r].t = "int"
              /\ table.cols[key][r].v \in StageRange(key)

\* C8: the schema accepts a table only if every row has n_stage in 0..3,
\* m_stage in -1..1, t_stage in 0..4 and tnm_edition in 7..8, the bounds
\* included: a table with a value outside (n_stage = 4), with a null or
\* without one of the four columns fails, and a table whose stage values
\* are all in range is not rejected because of them.
C8_StageRanges ==
    /\ v_pc = "passed" => StagesValid(v_table)
    /\ (Validated /\ StagesValid(v_table)) => ViolatingColumns \cap StageColumns = {}
    /\ (Validated /\ StagesValid(v_table) /\ ViolatingColumns \subseteq StageColumns)
          => v_pc = "passed"
    /\ v_pc # "start" =>
          \A key \in StageColumns :
              /\ HasKey(v_schema, key)
              /\ DictGet(v_schema, key).required
              /\ ~DictGet(v_schema, key).nullable

\* validate has rejected a table because of n_stage = 4
C8_Witness ==
    /\ v_pc = "raised"
    /\ HasColumn(v_table, NStage)
    /\ \E r \in 1..v_table.n : v_table.cols[NStage][r] = IntCell(4)
    /\ v_err.failures[1].column = NStage
    /\ v_err.failures[1].reason = "check"

\* the modality names the schema was constructed for
Requested ==
    IF Truthy(v_modalities)
    THEN {v_modalities.elems[i] : i \in 1..Len(v_modalities.elems)}
    ELSE {DefaultModalities[i] : i \in 1..Len(DefaultModalities)}

Catalogue == {_LNLS[i] : i \in 1..Len(_LNLS)}

\* the columns of the schema whose key starts with this modality
ColumnsOf(schema, modality) ==
    SelectSeq(schema.items, LAMBDA item : item[1][1] = modality)

ModalityKeys(modality) ==
    {<<modality, "info", "date">>}
    \cup {<<modality, side, lnl>> : side \in {"ipsi", "contra"}, lnl \in Catalogue}

NoModalityColumn(table) ==
    \A key \in DOMAIN table.cols : key[1] \in {"patient", "tumor"}

\* the table satisfies patient_columns and tumor_columns
FixedColumnsValid(table) == Failures(construct_schema(<<>>, _LNLS), table) = <<>>

\* C9: whatever list of modality names is requested, the schema holds per
\* requested modality exactly one (modality, info, date) column and exactly
\* one column per side and per level of the 16 levels of the catalogue, and
\* no other column of that modality; all of them are optional and nullable,
\* so a table with valid patient and tumor columns and no modality column
\* passes.
C9_ModalityColumns ==
    /\ Cardinality(Catalogue) = 16
    /\ v_pc # "start" =>
          /\ \A m \in Requested :
                LET cols == ColumnsOf(v_schema, m)
                IN  /\ Len(cols) = 1 + 2 * 16
                    /\ {cols[i][1] : i \in 1..Len(cols)} = ModalityKeys(m)
                    /\ \A i \in 1..Len(cols) :
                          ~cols[i][2].required /\ cols[i][2].nullable
          /\ \A i \in 1..Len(v_schema.items) :
                v_schema.items[i][1][1] \in Requested \cup {"patient", "tumor"}
    /\ (Validated /\ NoModalityColumn(v_table) /\ FixedColumnsValid(v_table))
          => v_pc = "passed"

\* a table without any modality column has passed a schema constructed for
\* a list of modalities that names one of them twice
C9_Witness ==
    /\ v_pc = "passed"
    /\ v_modalities = PyList(<<"MRI", "CT", "MRI">>)
    /\ NoModalityColumn(v_table)
    /\ Len(v_schema.items) = 18 + 2 * 33

-----------------------------------------------------------------------------
(* validator.py: validate_datasets, step by step.  A discovered dataset    *)
(* is the table its data.csv holds and the place load can read it from.    *)

MaxDatasets == 3  \* datasets that available_datasets yields

ValidTable == MakeTable(1, {})
ValidTableWithModality ==
    MakeTable(2, {[kind |-> "set", row |-> 1, col |-> <<"CT", "ipsi", "II">>,
                   cell |-> BoolCell(TRUE)]})
InvalidTable ==
    MakeTable(2, {[kind |-> "set", row |-> 2, col |-> NStage, cell |-> IntCell(4)]})

\* from: "disk" (read_csv of the path works), "github" (it does not, read_csv
\* of the URL works) or "nowhere" (both fail, load raises)
DataConfs ==
    {[table |-> ValidTable, from |-> "disk"],
     [table |-> ValidTableWithModality, from |-> "github"],
     [table |-> InvalidTable, from |-> "disk"],
     [table |-> ValidTable, from |-> "nowhere"]}

RECURSIVE SeqsUpTo(_, _)
SeqsUpTo(S, k) ==
    IF k = 0 THEN {<<>>}
    ELSE LET shorter == SeqsUpTo(S, k - 1)
         IN  shorter \cup {Append(q, x) : q \in shorter, x \in S}

\* loader.py: LyDatasetConfig.load
load(data_conf) ==
    IF data_conf.from = "nowhere"
    THEN [raised |-> TRUE, error |-> [type |-> "read_csv error", failures |-> <<>>]]
    ELSE [raised |-> FALSE, result |-> data_conf.table]

ValidatedModalities ==
    <<"pathology", "diagnostic_consensus", "PET", "CT", "FNA", "MRI">>

InitB ==
    /\ b_pc = "start"
    /\ b_datasets \in SeqsUpTo(DataConfs, MaxDatasets)
    /\ b_schema = NoSchema
    /\ b_i = 0
    /\ dataset = NoTable
    /\ b_loaded = <<>>
    /\ b_validated = <<>>
    /\ b_err = NoError
    /\ IdleT
    /\ IdleV
    /\ IdleQ
    /\ IdleP
    /\ IdleC
    /\ IdleM
    /\ IdleI
    /\ IdleL
    /\ IdleD

\* lines 135-137
B_Construct ==
    /\ b_pc = "start"
    /\ b_schema' = construct_schema(ValidatedModalities, _LNLS)
    /\ b_pc' = "iterating"
    /\ UNCHANGED <<b_datasets, b_i, dataset, b_loaded, b_validated, b_err>>
    /\ UNCHANGED not_B

\* lines 139-147: the generator yields its next dataset, which is loaded
B_Load ==
    /\ b_pc = "iterating"
    /\ b_i < Len(b_datasets)
    /\ LET outcome == load(b_datasets[b_i + 1])
       IN  /\ ~outcome.raised
           /\ dataset' = outcome.result
    /\ b_i' = b_i + 1
    /\ b_loaded' = Append(b_loaded, b_i + 1)
    /\ b_pc' = "loaded"
    /\ UNCHANGED <<b_datasets, b_schema, b_validated, b_err>>
    /\ UNCHANGED not_B

\* lines 139-147 when load raises: nothing catches it
B_LoadRaises ==
    /\ b_pc = "iterating"
    /\ b_i < Len(b_datasets)
    /\ LET outcome == load(b_datasets[b_i + 1])
       IN  /\ outcome.raised
           /\ b_err' = outcome.error
    /\ b_i' = b_i + 1
    /\ b_loaded' = Append(b_loaded, b_i + 1)
    /\ b_pc' = "raised"
    /\ UNCHANGED <<b_datasets, b_schema, dataset, b_validated>>
    /\ UNCHANGED not_B

\* lines 148-150
B_ValidatePasses ==
    /\ b_pc = "loaded"
    /\ ~validate(b_schema, dataset).raised
    /\ b_validated' = Append(b_validated, b_i)
    /\ b_pc' = "iterating"
    /\ UNCHANGED <<b_datasets, b_schema, b_i, dataset, b_loaded, b_err>>
    /\ UNCHANGED not_B

\* the handler of lines 151-154 if it only logged the failure
B_ValidateLogs ==
    /\ b_pc = "loaded"
    /\ validate(b_schema, dataset).raised
    /\ b_validated' = Append(b_validated, b_i)
    /\ b_pc' = "iterating"
    /\ UNCHANGED <<b_datasets, b_schema, b_i, dataset, b_loaded, b_err>>
    /\ UNCHANGED not_B

\* lines 148-154: validate raises a SchemaError, the handler raises Exception
B_ValidateRaises ==
    /\ b_pc = "loaded"
    /\ LET outcome == validate(b_schema, dataset)
       IN  /\ outcome.raised
           /\ outcome.error.type = "SchemaError"
           /\ b_err' = [type |-> "Exception", data_conf |-> b_i,
                        cause |-> outcome.error]
    /\ b_validated' = Append(b_validated, b_i)
    /\ b_pc' = "raised"
    /\ UNCHANGED <<b_datasets, b_schema, b_i, dataset, b_loaded>>
    /\ UNCHANGED not_B

\* line 139: the generator is exhausted, validate_datasets returns
B_Return ==
    /\ b_pc = "iterating"
    /\ b_i = Len(b_datasets)
    /\ b_pc' = "done"
    /\ UNCHANGED <<b_datasets, b_schema, b_i, dataset, b_loaded, b_validated, b_err>>
    /\ UNCHANGED not_B

NextB ==
    \/ B_Construct
    \/ B_Load
    \/ B_LoadRaises
    \/ B_ValidatePasses
    \/ B_ValidateRaises
    \/ B_Return

SpecB == InitB /\ [][NextB]_vars

-----------------------------------------------------------------------------
(* Properties of validate_datasets (SpecB).                                *)

Prefix(n) == [i \in 1..n |-> i]

\* the table of the dataset at this position violates the schema
FailsValidation(i) ==
    Failures(construct_schema(ValidatedModalities, _LNLS), b_datasets[i].table) # <<>>

CannotLoad(i) == b_datasets[i].from = "nowhere"

\* C7: datasets are loaded and validated one after the other in discovery
\* order; as soon as one fails validation an Exception naming it is raised
\* and no later dataset is loaded or validated; when validate_datasets
\* returns, which it does if no dataset fails, every discovered dataset has
\* been loaded and validated exactly once.
C7_FailFast ==
    /\ b_loaded = Prefix(Len(b_loaded))
    /\ b_validated = Prefix(Len(b_validated))
    /\ Len(b_loaded) = b_i
    /\ Len(b_validated) = IF b_pc = "loaded" \/ (b_pc = "raised" /\ b_err.type # "Exception")
                          THEN b_i - 1 ELSE b_i
    /\ \A i \in 1..Len(b_validated) :
          FailsValidation(i) => (b_pc = "raised" /\ i = Len(b_validated)
                                 /\ b_err.type = "Exception" /\ b_err.data_conf = i)
    /\ b_pc = "raised" => ~ENABLED NextB
    /\ (b_pc = "raised" /\ b_err.type = "Exception") => FailsValidation(b_i)
    /\ b_pc = "done" =>
          /\ b_validated = Prefix(Len(b_datasets))
          /\ \A i \in 1..Len(b_datasets) : ~FailsValidation(i)
    /\ (b_pc \in {"done", "raised"}
        /\ \A i \in 1..Len(b_datasets) : ~FailsValidation(i) /\ ~CannotLoad(i))
          => b_pc = "done"

\* the second of three datasets has failed validation: the batch has stopped
\* with the third dataset neither loaded nor validated
C7_Witness ==
    /\ b_pc = "raised"
    /\ Len(b_datasets) = 3
    /\ b_err.type = "Exception"
    /\ b_err.data_conf = 2
    /\ b_loaded = <<1, 2>>
    /\ b_validated = <<1, 2>>

-----------------------------------------------------------------------------
(* accessor.py: the query algebra.  A table df has row labels (its index)  *)
(* and columns of integers; a Series has an index and values.  A column    *)
(* name is a tuple: <<"x">> for the plain name 'x', three parts for a long *)
(* name.                                                                   *)

MaxQRows == 2     \* rows of a queried table; its row labels are in 0..MaxQRows
MaxOps == 1       \* combinators (&, |, ~) in a predicate

Series(index, values) == [index |-> index, values |-> values]

\* pd.RangeIndex(n): the labels 0..n-1
RangeIndex(n) == [i \in 1..n |-> i - 1]

Labels(s) == {s.index[i] : i \in 1..Len(s.index)}

\* s[label]
ValueAt(s, label) == s.values[CHOOSE i \in 1..Len(s.index) : s.index[i] = label]

RECURSIVE SortedSeq(_)
SortedSeq(S) ==
    IF S = {} THEN <<>>
    ELSE LET least == CHOOSE x \in S : \A y \in S : x <= y
         IN  <<least>> \o SortedSeq(S \ {least})

\* pandas: left & right.  Series with equal indexes are combined value by
\* value; otherwise both are aligned to the sorted union of their labels and
\* a label that one of them lacks yields False.
SeriesAnd(left, right) ==
    IF left.index = right.index
    THEN Series(left.index,
                [i \in 1..Len(left.index) |-> left.values[i] /\ right.values[i]])
    ELSE LET union == SortedSeq(Labels(left) \cup Labels(right))
         IN  Series(union,
                    [i \in 1..Len(union) |->
                        /\ union[i] \in Labels(left)
                        /\ union[i] \in Labels(right)
                        /\ ValueAt(left, union[i])
                        /\ ValueAt(right, union[i])])

\* pandas: left | right.  After alignment a label that right lacks is filled
\* with False; a label that left lacks yields NaN | value, which pandas turns
\* into False.
SeriesOr(left, right) ==
    IF left.index = right.index
    THEN Series(left.index,
                [i \in 1..Len(left.index) |-> left.values[i] \/ right.values[i]])
    ELSE LET union == SortedSeq(Labels(left) \cup Labels(right))
         IN  Series(union,
                    [i \in 1..Len(union) |->
                        /\ union[i] \in Labels(left)
                        /\ \/ ValueAt(left, union[i])
                           \/ /\ union[i] \in Labels(right)
                              /\ ValueAt(right, union[i])])

\* pandas: ~series
SeriesNot(series) ==
    Series(series.index, [i \in 1..Len(series.index) |-> ~series.values[i]])

\* utils.py: get_default_column_map().from_short, short name -> long name
from_short ==
    ( <<"id">> :> <<"patient", "#", "id">>
   @@ <<"institution">> :> <<"patient", "#", "institution">>
   @@ <<"sex">> :> <<"patient", "#", "sex">>
   @@ <<"age">> :> <<"patient", "#", "age">>
   @@ <<"weight">> :> <<"patient", "#", "weight">>
   @@ <<"date">> :> <<"patient", "#", "diagnose_date">>
   @@ <<"surgery">> :> <<"patient", "#", "neck_dissection">>
   @@ <<"hpv">> :> <<"patient", "#", "hpv_status">>
   @@ <<"smoke">> :> <<"patient", "#", "nicotine_abuse">>
   @@ <<"alcohol">> :> <<"patient", "#", "alcohol_abuse">>
   @@ <<"t_stage">> :> <<"tumor", "1", "t_stage">>
   @@ <<"n_stage">> :> <<"patient", "#", "n_stage">>
   @@ <<"m_stage">> :> <<"patient", "#", "m_stage">>
   @@ <<"midext">> :> <<"tumor", "1", "extension">>
   @@ <<"subsite">> :> <<"tumor", "1", "subsite">>
   @@ <<"volume">> :> <<"tumor", "1", "volume">>
   @@ <<"central">> :> <<"tumor", "1", "central">> )

\* the predicate objects
Q(column, operator, value) ==
    [kind |-> "Q", colname |-> column, operator |-> operator, value |-> value]
AndQ(q1, q2) == [kind |-> "AndQ", q1 |-> q1, q2 |-> q2]
OrQ(q1, q2) == [kind |-> "OrQ", q1 |-> q1, q2 |-> q2]
NotQ(q) == [kind |-> "NotQ", q |-> q]
NoneQ == [kind |-> "NoneQ"]

\* Q._OPERATOR_MAP[operator] on one cell of the column
_OPERATOR_MAP(operator, cell, value) ==
    CASE operator = "==" -> cell = value.v
      [] operator = "<" -> cell < value.v
      [] operator = "<=" -> cell <= value.v
      [] operator = ">" -> cell > value.v
      [] operator = ">=" -> cell >= value.v
      [] operator = "!=" -> cell # value.v
      [] operator = "in" -> \E i \in 1..Len(value.elems) : cell = value.elems[i].v

\* the callables of the model, applied to one cell: isna
CallValue(name, cell) == FALSE

_get_all_true(df) == Series(RangeIndex(Len(df.index)), [i \in 1..Len(df.index) |-> TRUE])

Returned(mask) == [raised |-> FALSE, mask |-> mask]
KeyError(colname) == [raised |-> TRUE, error |-> [type |-> "KeyError", key |-> colname]]

\* a variant of ExecuteQ: a column that is not in the table matches no row
ExecuteQLenient(q, df) ==
    LET colname == IF q.colname \in DOMAIN from_short
                   THEN from_short[q.colname] ELSE q.colname
    IN  IF colname \notin DOMAIN df.cols
        THEN Returned(Series(df.index, [i \in 1..Len(df.index) |-> FALSE]))
        ELSE Returned(Series(df.index,
                [i \in 1..Len(df.index) |->
                    IF q.value.kind = "callable"
                    THEN CallValue(q.value.name, df.cols[colname][i])
                    ELSE _OPERATOR_MAP(q.operator, df.cols[colname][i], q.value)]))

\* Q.execute
ExecuteQ(q, df) ==
    LET colname == IF q.colname \in DOMAIN from_short
                   THEN from_short[q.colname] ELSE q.colname
    IN  IF colname \notin DOMAIN df.cols THEN KeyError(colname)
        ELSE LET column == df.cols[colname]
             IN  Returned(Series(df.index,
                    [i \in 1..Len(df.index) |->
                        IF q.value.kind = "callable"
                        THEN CallValue(q.value.name, column[i])
                        ELSE _OPERATOR_MAP(q.operator, column[i], q.value)]))

\* execute of Q, AndQ, OrQ, NotQ and NoneQ; an exception of an operand leaves
\* the whole execute
RECURSIVE execute(_, _)
execute(q, df) ==
    CASE q.kind = "Q" -> ExecuteQ(q, df)
      [] q.kind = "NoneQ" -> Returned(_get_all_true(df))
      [] q.kind = "NotQ" ->
            LET m == execute(q.q, df)
            IN  IF m.raised THEN m ELSE Returned(SeriesNot(m.mask))
      [] q.kind \in {"AndQ", "OrQ"} ->
            LET m1 == execute(q.q1, df)
                m2 == execute(q.q2, df)
            IN  IF m1.raised THEN m1
                ELSE IF m2.raised THEN m2
                ELSE IF q.kind = "AndQ" THEN Returned(SeriesAnd(m1.mask, m2.mask))
                ELSE Returned(SeriesOr(m1.mask, m2.mask))


-----------------------------------------------------------------------------
(* The tables and predicates of the model, and the execution of a          *)
(* predicate on a table.                                                   *)

XCol == <<"x">>
AgeCol == <<"patient", "#", "age">>

\* the rows of the queried tables
QRows == {[x |-> 1, age |-> 1], [x |-> 2, age |-> 3]}

\* the row labels of a table of n rows: 0..n-1 for a table as it is read,
\* any increasing labels for the result of a query that dropped rows
Indexes(n) ==
    {idx \in [1..n -> 0..MaxQRows] : \A i \in 1..(n - 1) : idx[i] < idx[i + 1]}

DataFrame(index, rows) ==
    [index |-> index,
     cols |-> (XCol :> [i \in 1..Len(rows) |-> rows[i].x]
            @@ AgeCol :> [i \in 1..Len(rows) |-> rows[i].age])]

DataFrames ==
    UNION {{DataFrame(idx, rows) : idx \in Indexes(n), rows \in [1..n -> QRows]} :
              n \in 0..MaxQRows}

\* the leaves: comparisons of a plain column, of a short name and of a
\* column no table has, and the neutral predicate
QLeaves ==
    {Q(XCol, ">", PyInt(1)),
     Q(XCol, "==", PyCallable("isna")),
     Q(<<"age">>, "in", PyList(<<PyInt(1), PyInt(2)>>)),
     Q(<<"zz">>, "!=", PyInt(1)),
     NoneQ}

\* the predicates that &, | and ~ (CombineQMixin) build with exactly k
\* combinators
RECURSIVE QueriesOf(_)
QueriesOf(k) ==
    IF k = 0 THEN QLeaves
    ELSE {NotQ(q) : q \in QueriesOf(k - 1)}
         \cup UNION {{AndQ(q1, q2) : q1 \in QueriesOf(j), q2 \in QueriesOf(k - 1 - j)} :
                        j \in 0..(k - 1)}
         \cup UNION {{OrQ(q1, q2) : q1 \in QueriesOf(j), q2 \in QueriesOf(k - 1 - j)} :
                        j \in 0..(k - 1)}

Queries == UNION {QueriesOf(k) : k \in 0..MaxOps}

\* the number of combinators in a predicate
RECURSIVE NumOps(_)
NumOps(q) ==
    CASE q.kind \in {"Q", "NoneQ"} -> 0
      [] q.kind = "NotQ" -> 1 + NumOps(q.q)
      [] q.kind \in {"AndQ", "OrQ"} -> 1 + NumOps(q.q1) + NumOps(q.q2)

Ok(value) == [raised |-> FALSE, value |-> value]
IndexingError == [raised |-> TRUE, error |-> [type |-> "IndexingError", key |-> <<>>]]
ValueError == [raised |-> TRUE, error |-> [type |-> "ValueError", key |-> <<>>]]

\* pandas: check_bool_indexer(index, key).  A boolean Series used as an
\* indexer is taken as it is when its index equals the indexed object's;
\* otherwise it is reindexed by label, which fails when a label of the
\* indexed object is missing from it.
check_bool_indexer(index, key) ==
    IF key.index = index THEN Ok(key.values)
    ELSE IF \E i \in 1..Len(index) : index[i] \notin Labels(key) THEN IndexingError
    ELSE Ok([i \in 1..Len(index) |-> ValueAt(key, index[i])])

\* the positions a boolean indexer selects, in order
Selected(values) == SortedSeq({i \in 1..Len(values) : values[i]})

\* pandas: df[mask]
DataFrameGetitem(df, mask) ==
    LET checked == check_bool_indexer(df.index, mask)
    IN  IF checked.raised THEN checked
        ELSE LET pos == Selected(checked.value)
             IN  Ok([index |-> [j \in 1..Len(pos) |-> df.index[pos[j]]],
                     cols |-> [c \in DOMAIN df.cols |->
                                  [j \in 1..Len(pos) |-> df.cols[c][pos[j]]]]])

\* pandas: series[mask]
SeriesGetitem(series, mask) ==
    LET checked == check_bool_indexer(series.index, mask)
    IN  IF checked.raised THEN checked
        ELSE LET pos == Selected(checked.value)
             IN  Ok(Series([j \in 1..Len(pos) |-> series.index[pos[j]]],
                           [j \in 1..Len(pos) |-> series.values[pos[j]]]))

\* pandas: series.sum() of a boolean Series
SeriesSum(series) == Cardinality({i \in 1..Len(series.values) : series.values[i]})

\* a variant of QueryPortion: __post_init__ without its check of match < 0
QueryPortionLax(match, total) ==
    IF total < 0 \/ match > total THEN ValueError
    ELSE Ok([match |-> match, total |-> total])

\* QueryPortion(match, total), with the checks of __post_init__
QueryPortion(match, total) ==
    IF total < 0 \/ match < 0 \/ match > total THEN ValueError
    ELSE Ok([match |-> match, total |-> total])

\* `query or NoneQ()`: a predicate object is truthy, None is not
OrNoneQ(query) == IF query = None THEN NoneQ ELSE query

\* LyDataAccessor.query
query(df, q) ==
    LET m == execute(OrNoneQ(q), df)
    IN  IF m.raised THEN m ELSE DataFrameGetitem(df, m.mask)

\* LyDataAccessor.portion
portion(df, q, given) ==
    LET given_mask == execute(OrNoneQ(given), df)
        query_mask == execute(OrNoneQ(q), df)
    IN  IF given_mask.raised THEN given_mask
        ELSE IF query_mask.raised THEN query_mask
        ELSE LET matching == SeriesGetitem(query_mask.mask, given_mask.mask)
             IN  IF matching.raised THEN matching
                 ELSE QueryPortion(SeriesSum(matching.value), SeriesSum(given_mask.mask))

\* the values of the argument `given` of portion
Givens == QLeaves \cup {None}

\* the table without its first row, as a query that drops that row returns it
DropFirstRow(df) ==
    [index |-> Tail(df.index),
     cols |-> [c \in DOMAIN df.cols |-> Tail(df.cols[c])]]

InitQ ==
    /\ q_pc = "start"
    /\ q_df \in DataFrames
    /\ q_query \in Queries \cup {None}
    /\ q_mask = NoMask
    /\ q_err = NoError
    /\ q_given = None
    /\ q_out = NoTable
    /\ IdleT
    /\ IdleV
    /\ IdleB
    /\ IdleP
    /\ IdleC
    /\ IdleM
    /\ IdleI
    /\ IdleL
    /\ IdleD

\* Q(...), also by a comparison of C(column): a new leaf predicate
Q_New ==
    /\ q_pc = "start"
    /\ q_query = None
    /\ q_query' \in QLeaves
    /\ UNCHANGED <<q_pc, q_df, q_mask, q_err, q_given, q_out>>
    /\ UNCHANGED not_Q

\* CombineQMixin.__and__, on either side of another predicate
Q_And ==
    /\ q_pc = "start"
    /\ q_query # None
    /\ NumOps(q_query) < MaxOps
    /\ \E other \in QLeaves :
          q_query' \in {AndQ(q_query, other), AndQ(other, q_query)}
    /\ UNCHANGED <<q_pc, q_df, q_mask, q_err, q_given, q_out>>
    /\ UNCHANGED not_Q

\* CombineQMixin.__or__, on either side of another predicate
Q_Or ==
    /\ q_pc = "start"
    /\ q_query # None
    /\ NumOps(q_query) < MaxOps
    /\ \E other \in QLeaves :
          q_query' \in {OrQ(q_query, other), OrQ(other, q_query)}
    /\ UNCHANGED <<q_pc, q_df, q_mask, q_err, q_given, q_out>>
    /\ UNCHANGED not_Q

\* CombineQMixin.__invert__
Q_Invert ==
    /\ q_pc = "start"
    /\ q_query # None
    /\ NumOps(q_query) < MaxOps
    /\ q_query' = NotQ(q_query)
    /\ UNCHANGED <<q_pc, q_df, q_mask, q_err, q_given, q_out>>
    /\ UNCHANGED not_Q

\* query.execute(df) returns a mask
Q_Execute ==
    /\ q_pc = "start"
    /\ q_query # None
    /\ LET outcome == execute(q_query, q_df)
       IN  /\ ~outcome.raised
           /\ q_mask' = outcome.mask
    /\ q_pc' = "executed"
    /\ UNCHANGED <<q_df, q_query, q_err, q_given, q_out>>
    /\ UNCHANGED not_Q

\* query.execute(df) raises: a column is not in the table
Q_ExecuteRaises ==
    /\ q_pc = "start"
    /\ q_query # None
    /\ LET outcome == execute(q_query, q_df)
       IN  /\ outcome.raised
           /\ q_err' = outcome.error
    /\ q_pc' = "raised"
    /\ UNCHANGED <<q_df, q_query, q_mask, q_given, q_out>>
    /\ UNCHANGED not_Q

\* df.ly.query(query) returns the selected rows
Q_Query ==
    /\ q_pc = "start"
    /\ LET outcome == query(q_df, q_query)
       IN  /\ ~outcome.raised
           /\ q_out' = outcome.value
    /\ q_mask' = execute(OrNoneQ(q_query), q_df).mask
    /\ q_pc' = "queried"
    /\ UNCHANGED <<q_df, q_query, q_err, q_given>>
    /\ UNCHANGED not_Q

\* df.ly.query(query) raises, in execute or in self._obj[mask]
Q_QueryRaises ==
    /\ q_pc = "start"
    /\ LET outcome == query(q_df, q_query)
       IN  /\ outcome.raised
           /\ q_err' = outcome.error
    /\ q_pc' = "query_raised"
    /\ UNCHANGED <<q_df, q_query, q_mask, q_given, q_out>>
    /\ UNCHANGED not_Q

\* df.ly.portion(query, given) returns a QueryPortion
Q_Portion ==
    /\ q_pc = "start"
    /\ \E given \in Givens :
          LET outcome == portion(q_df, q_query, given)
          IN  /\ ~outcome.raised
              /\ q_out' = outcome.value
              /\ q_given' = given
    /\ q_pc' = "portioned"
    /\ UNCHANGED <<q_df, q_query, q_mask, q_err>>
    /\ UNCHANGED not_Q

\* df.ly.portion(query, given) raises
Q_PortionRaises ==
    /\ q_pc = "start"
    /\ \E given \in Givens :
          LET outcome == portion(q_df, q_query, given)
          IN  /\ outcome.raised
              /\ q_err' = outcome.error
              /\ q_given' = given
    /\ q_pc' = "portion_raised"
    /\ UNCHANGED <<q_df, q_query, q_mask, q_out>>
    /\ UNCHANGED not_Q

\* the caller goes on with the same predicate object and another table: the
\* rows that are left when the first one is dropped
Q_Reuse ==
    /\ q_pc \in {"executed", "raised", "queried", "query_raised",
                 "portioned", "portion_raised"}
    /\ Len(q_df.index) > 0
    /\ q_df' = DropFirstRow(q_df)
    /\ q_pc' = "start"
    /\ q_mask' = NoMask
    /\ q_err' = NoError
    /\ q_given' = None
    /\ q_out' = NoTable
    /\ UNCHANGED q_query
    /\ UNCHANGED not_Q

BuildStep == Q_New \/ Q_And \/ Q_Or \/ Q_Invert

NextQ ==
    \/ Q_New
    \/ Q_And
    \/ Q_Or
    \/ Q_Invert
    \/ Q_Execute
    \/ Q_ExecuteRaises
    \/ Q_Query
    \/ Q_QueryRaises
    \/ Q_Portion
    \/ Q_PortionRaises
    \/ Q_Reuse

SpecQ == InitQ /\ [][NextQ]_vars

-----------------------------------------------------------------------------
(* Properties of the query algebra (SpecQ).                                *)

\* the mask of an operand on the table under query
MaskOf(q) == execute(q, q_df).mask

\* a mask with one value per row of the table
RowForRow(mask) == Len(mask.values) = Len(q_df.index)

\* C10 as stated: on any table, the mask of A & B is the element-wise AND of
\* the masks of A and B (one value per row, the i-th value the conjunction
\* of their i-th values), the mask of A | B is their element-wise OR, and
\* the mask of ~~A is the mask of A.
C10_CombinatorsElementwise ==
    q_pc = "executed" =>
        /\ q_query.kind \in {"AndQ", "OrQ"} =>
              /\ RowForRow(MaskOf(q_query.q1))
              /\ RowForRow(MaskOf(q_query.q2))
              /\ RowForRow(q_mask)
              /\ \A i \in 1..Len(q_df.index) :
                    q_mask.values[i] =
                        IF q_query.kind = "AndQ"
                        THEN MaskOf(q_query.q1).values[i] /\ MaskOf(q_query.q2).values[i]
                        ELSE MaskOf(q_query.q1).values[i] \/ MaskOf(q_query.q2).values[i]
        /\ (q_query.kind = "NotQ" /\ q_query.q.kind = "NotQ") =>
              q_mask = MaskOf(q_query.q.q)


\* the rows of the table that satisfy a predicate, counted from its mask
RowsSatisfying(q) ==
    {i \in 1..Len(q_df.index) : MaskOf(OrNoneQ(q)).values[i]}

\* every column reference of the predicate is a column of the table
RECURSIVE Resolvable(_, _)
Resolvable(q, df) ==
    CASE q.kind = "NoneQ" -> TRUE
      [] q.kind = "Q" -> ~ExecuteQ(q, df).raised
      [] q.kind = "NotQ" -> Resolvable(q.q, df)
      [] q.kind \in {"AndQ", "OrQ"} -> Resolvable(q.q1, df) /\ Resolvable(q.q2, df)

\* C11 as stated: on every table, whatever its row labels, the mask execute
\* returns has one value per row, labelled like the rows; query with no
\* filter returns all rows of the table; and portion with no `given` counts
\* over all rows of the table.
C11_MaskAlignedWithTable ==
    /\ q_pc = "executed" => q_mask.index = q_df.index
    /\ (q_pc \in {"queried", "query_raised"} /\ q_query = None) =>
          (q_pc = "queried" /\ q_out = q_df)
    /\ (q_pc \in {"portioned", "portion_raised"} /\ q_given = None
        /\ Resolvable(OrNoneQ(q_query), q_df)) =>
          (q_pc = "portioned" /\ q_out.total = Len(q_df.index))


\* the leaves of a predicate
RECURSIVE LeavesOf(_)
LeavesOf(q) ==
    CASE q.kind = "NoneQ" -> {}
      [] q.kind = "Q" -> {q}
      [] q.kind = "NotQ" -> LeavesOf(q.q)
      [] q.kind \in {"AndQ", "OrQ"} -> LeavesOf(q.q1) \cup LeavesOf(q.q2)

\* a column reference that is neither a registered short name nor a column
\* of the table
Unknown(colname, df) == colname \notin DOMAIN from_short /\ colname \notin DOMAIN df.cols

\* a column reference that does not lead to a column of the table
Unresolved(colname, df) ==
    /\ colname \in DOMAIN from_short => from_short[colname] \notin DOMAIN df.cols
    /\ colname \notin DOMAIN from_short => colname \notin DOMAIN df.cols

QFinal == {"executed", "raised", "queried", "query_raised", "portioned", "portion_raised"}

\* C12: a step that constructs or combines predicates leaves the table as it
\* is and raises nothing, whatever the column references are; when execute
\* is called, a reference that is neither a short name nor a column of the
\* table raises a KeyError, and execute raises only for a reference that
\* leads to no column of the table; no call changes the predicate, which can
\* then be executed on another table.
C12_LookupOnlyAtExecute ==
    /\ [](q_pc \in {"executed", "raised"} =>
            /\ (\E leaf \in LeavesOf(q_query) : Unknown(leaf.colname, q_df))
                  => (q_pc = "raised" /\ q_err.type = "KeyError")
            /\ q_pc = "raised"
                  => \E leaf \in LeavesOf(q_query) : Unresolved(leaf.colname, q_df))
    /\ [](q_pc = "start" => (q_err = NoError /\ q_mask = NoMask /\ q_out = NoTable))
    /\ [][q_query' # q_query =>
            (q_pc = "start" /\ q_pc' = "start" /\ q_df' = q_df /\ q_err' = NoError)]_vars
    /\ [][(q_pc \in QFinal /\ q_pc' = "start") =>
            (q_query' = q_query /\ q_df' # q_df
             /\ (q_query # None => ENABLED (Q_Execute \/ Q_ExecuteRaises))')]_vars

\* a combined predicate with a reference to a column no table has was
\* constructed, and its execution on a table has raised the KeyError
C12_Witness ==
    /\ q_pc = "raised"
    /\ q_err.type = "KeyError"
    /\ NumOps(q_query) >= 1
    /\ \E leaf \in LeavesOf(q_query) : Unknown(leaf.colname, q_df)
    /\ \E leaf \in LeavesOf(q_query) : ~Unresolved(leaf.colname, q_df)


\* row i of the table satisfies the predicate (None counts as always true)
RECURSIVE Satisfies(_, _, _)
Satisfies(df, q, i) ==
    CASE q.kind \in {"None", "NoneQ"} -> TRUE
      [] q.kind = "Q" -> ExecuteQ(q, df).mask.values[i]
      [] q.kind = "NotQ" -> ~Satisfies(df, q.q, i)
      [] q.kind = "AndQ" -> Satisfies(df, q.q1, i) /\ Satisfies(df, q.q2, i)
      [] q.kind = "OrQ" -> Satisfies(df, q.q1, i) \/ Satisfies(df, q.q2, i)

\* C13 as stated: portion returns match = the number of rows that satisfy
\* both query and given and total = the number of rows that satisfy given,
\* an omitted query or given counting as always true, on every table.
C13_PortionCounts ==
    (/\ q_pc \in {"portioned", "portion_raised"}
     /\ Resolvable(OrNoneQ(q_query), q_df)
     /\ Resolvable(OrNoneQ(q_given), q_df)) =>
        /\ q_pc = "portioned"
        /\ q_out.match = Cardinality({i \in 1..Len(q_df.index) :
                            Satisfies(q_df, q_query, i) /\ Satisfies(q_df, q_given, i)})
        /\ q_out.total = Cardinality({i \in 1..Len(q_df.index) :
                            Satisfies(q_df, q_given, i)})


-----------------------------------------------------------------------------
(* accessor.py: the class QueryPortion, constructed from any two integers  *)

MaxCount == 8     \* match and total are in -1..MaxCount

\* QueryPortion.fail
fail(self) == self.total - self.match

\* QueryPortion.invert
invert(self) == QueryPortion(fail(self), self.total)

InitP ==
    /\ p_pc = "start"
    /\ p_args \in (-1..MaxCount) \X (-1..MaxCount)
    /\ p_portion = None
    /\ p_err = NoError
    /\ IdleT
    /\ IdleV
    /\ IdleB
    /\ IdleQ
    /\ IdleC
    /\ IdleM
    /\ IdleI
    /\ IdleL
    /\ IdleD

\* QueryPortion(match, total) passes the checks of __post_init__
P_Construct ==
    /\ p_pc = "start"
    /\ LET outcome == QueryPortion(p_args[1], p_args[2])
       IN  /\ ~outcome.raised
           /\ p_portion' = outcome.value
    /\ p_pc' = "constructed"
    /\ UNCHANGED <<p_args, p_err>>
    /\ UNCHANGED not_P

\* QueryPortion(match, total) raises the ValueError of __post_init__
P_ConstructRaises ==
    /\ p_pc = "start"
    /\ LET outcome == QueryPortion(p_args[1], p_args[2])
       IN  /\ outcome.raised
           /\ p_err' = outcome.error
    /\ p_pc' = "raised"
    /\ UNCHANGED <<p_args, p_portion>>
    /\ UNCHANGED not_P

\* portion.invert(), on a constructed portion and on its inverse
P_Invert ==
    /\ p_pc \in {"constructed", "inverted"}
    /\ LET outcome == invert(p_portion)
       IN  /\ ~outcome.raised
           /\ p_portion' = outcome.value
    /\ p_pc' = IF p_pc = "constructed" THEN "inverted" ELSE "inverted_twice"
    /\ UNCHANGED <<p_args, p_err>>
    /\ UNCHANGED not_P

NextP ==
    \/ P_Construct
    \/ P_ConstructRaises
    \/ P_Invert

SpecP == InitP /\ [][NextP]_vars

-----------------------------------------------------------------------------
(* Properties of QueryPortion (SpecP).                                     *)

\* C14: QueryPortion(match, total) raises exactly when match > total,
\* match < 0 or total < 0; a constructed portion has fail = total - match;
\* invert never raises and yields a valid portion with match and fail
\* swapped and the same total, and inverting twice gives the portion back.
C14_PortionValidAndInvertible ==
    /\ p_pc # "start" =>
          ((p_pc = "raised") <=>
              (p_args[1] > p_args[2] \/ p_args[1] < 0 \/ p_args[2] < 0))
    /\ p_pc \in {"constructed", "inverted", "inverted_twice"} =>
          /\ 0 <= p_portion.match
          /\ p_portion.match <= p_portion.total
          /\ fail(p_portion) = p_portion.total - p_portion.match
          /\ ~invert(p_portion).raised
    /\ p_pc = "constructed" => p_portion = [match |-> p_args[1], total |-> p_args[2]]
    /\ p_pc = "inverted" =>
          /\ p_portion.match = p_args[2] - p_args[1]
          /\ fail(p_portion) = p_args[1]
          /\ p_portion.total = p_args[2]
    /\ p_pc = "inverted_twice" => p_portion = [match |-> p_args[1], total |-> p_args[2]]

\* a portion with 0 < match < total was inverted twice
C14_Witness ==
    /\ p_pc = "inverted_twice"
    /\ 0 < p_args[1]
    /\ p_args[1] < p_args[2]


-----------------------------------------------------------------------------
(* utils.py: ModalityConfig and get_default_modalities; accessor.py:       *)
(* combine.  Sensitivities, specificities and likelihoods are numbers with *)
(* two decimals, held in hundredths: 0.81 is 81 and 1.0 is One.  Sums and  *)
(* products of them are exact, a product of k factors being in units of    *)
(* One^k; the comparisons of combine are between products of equally many  *)
(* factors.                                                                *)

One == 100

ValidationError == [raised |-> TRUE, error |-> [type |-> "ValidationError", key |-> <<>>]]
IndexError == [raised |-> TRUE, error |-> [type |-> "IndexError", key |-> <<>>]]

Kinds == {"clinical", "pathological"}

\* a variant of ModalityConfig: the fields spec and sens without le=1.0
ModalityConfigUnbounded(spec, sens, kind) ==
    IF spec < 50 \/ sens < 50 \/ kind \notin Kinds
    THEN ValidationError
    ELSE Ok([spec |-> spec, sens |-> sens, kind |-> kind])

\* ModalityConfig(spec=..., sens=..., kind=...): pydantic validates the
\* fields spec and sens with ge=0.5, le=1.0 and kind as one of two literals
ModalityConfig(spec, sens, kind) ==
    IF spec < 50 \/ spec > One \/ sens < 50 \/ sens > One \/ kind \notin Kinds
    THEN ValidationError
    ELSE Ok([spec |-> spec, sens |-> sens, kind |-> kind])

\* a dict of modalities, as the sequence of its items
Dict(items) == [kind |-> "dict", items |-> items]
Item(name, config) == [name |-> name, config |-> config.value]

\* a variant of get_default_modalities in which pathology is no more
\* reliable than fine needle aspiration
get_default_modalities_fallible_pathology ==
    Dict(<< Item("CT", ModalityConfig(76, 81, "clinical")),
            Item("MRI", ModalityConfig(63, 81, "clinical")),
            Item("PET", ModalityConfig(86, 79, "clinical")),
            Item("FNA", ModalityConfig(98, 80, "pathological")),
            Item("diagnostic_consensus", ModalityConfig(86, 81, "clinical")),
            Item("pathology", ModalityConfig(98, 80, "pathological")),
            Item("pCT", ModalityConfig(86, 81, "clinical")) >>)

\* get_default_modalities()
get_default_modalities ==
    Dict(<< Item("CT", ModalityConfig(76, 81, "clinical")),
            Item("MRI", ModalityConfig(63, 81, "clinical")),
            Item("PET", ModalityConfig(86, 79, "clinical")),
            Item("FNA", ModalityConfig(98, 80, "pathological")),
            Item("diagnostic_consensus", ModalityConfig(86, 81, "clinical")),
            Item("pathology", ModalityConfig(One, One, "pathological")),
            Item("pCT", ModalityConfig(86, 81, "clinical")) >>)

\* the non-modality columns get_modalities removes by default
NonModalityCols ==
    {"patient", "tumor", "total_dissected", "positive_dissected",
     "enbloc_dissected", "enbloc_positive"}

\* df.ly.get_modalities(): the top-level column groups that are no
\* non-modality columns (their order plays no role in combine)
get_modalities(df) == {key[1] : key \in DOMAIN df.cols} \ NonModalityCols

\* dataset[modality]: the columns of the top-level group, keyed by their
\* two lower levels
Group(data, modality) ==
    LET keys == {key \in DOMAIN data.cols : key[1] = modality}
    IN  [sub \in {<<key[2], key[3]>> : key \in keys} |->
            data.cols[<<modality, sub[1], sub[2]>>]]

\* .drop(columns=["info"], errors="ignore")
DropInfo(group) == [sub \in {s \in DOMAIN group : s[1] # "info"} |-> group[sub]]

\* reindexing a sub-table to `columns`: a column it lacks is all null
Reindexed(group, columns, n) ==
    [sub \in columns |-> IF sub \in DOMAIN group THEN group[sub]
                         ELSE [r \in 1..n |-> Null]]

\* this.align(other, join="outer") of sub-tables with the same rows: the
\* pair of both, reindexed to the union of their columns
Align(this, other, n) ==
    LET columns == DOMAIN this \cup DOMAIN other
    IN  <<Reindexed(this, columns, n), Reindexed(other, columns, n)>>

\* a variant of AlignWithStack that does not store the aligned `other`
\* back into the stack
RECURSIVE AlignWithStackNotStored(_, _, _, _)
AlignWithStackNotStored(this, diagnosis_stack, i, n) ==
    IF i > Len(diagnosis_stack) THEN Append(diagnosis_stack, this)
    ELSE LET aligned == Align(this, diagnosis_stack[i], n)
         IN  AlignWithStackNotStored(aligned[1], diagnosis_stack, i + 1, n)

\* for i, other in enumerate(diagnosis_stack): this, other =
\* this.align(other, join="outer"); diagnosis_stack[i] = other; and after
\* the loop diagnosis_stack.append(this)
RECURSIVE AlignWithStack(_, _, _, _)
AlignWithStack(this, diagnosis_stack, i, n) ==
    IF i > Len(diagnosis_stack) THEN Append(diagnosis_stack, this)
    ELSE LET aligned == Align(this, diagnosis_stack[i], n)
         IN  AlignWithStack(aligned[1],
                            [diagnosis_stack EXCEPT ![i] = aligned[2]], i + 1, n)

\* the loop over modalities from its k-th element on; dataset[modality]
\* raises KeyError for a modality the dataset lacks, which skips it
RECURSIVE AlignLoop(_, _, _, _)
AlignLoop(data, modalities, k, diagnosis_stack) ==
    IF k > Len(modalities) THEN diagnosis_stack
    ELSE IF \A key \in DOMAIN data.cols : key[1] # modalities[k]
    THEN AlignLoop(data, modalities, k + 1, diagnosis_stack)
    ELSE AlignLoop(data, modalities, k + 1,
                   AlignWithStack(DropInfo(Group(data, modalities[k])),
                                  diagnosis_stack, 1, Len(data.index)))

\* align_diagnoses(dataset, modalities): one sub-table per modality found
\* in the dataset, in the order of modalities
align_diagnoses(data, modalities) == AlignLoop(data, modalities, 1, <<>>)

\* bool(cell) as np.where takes it: NaN counts as true, None as false
NpTruth(cell) == IF IsNull(cell) THEN TRUE ELSE cell.b

RECURSIVE NpProd(_)
NpProd(values) ==
    IF Len(values) = 0 THEN 1 ELSE Head(values) * NpProd(Tail(values))

RECURSIVE NpMax(_)
NpMax(values) ==
    IF Len(values) = 1 THEN Head(values)
    ELSE LET rest == NpMax(Tail(values))
         IN  IF Head(values) > rest THEN Head(values) ELSE rest

\* getattr(np, method): np.prod or np.max
NpMethod(method, values) ==
    IF method = "prod" THEN NpProd(values) ELSE NpMax(values)

\* a variant of _false_estimate: an unknown observation counts 1.0 under
\* either method
_false_estimate_neutral_one(obs, false_pos_probs, true_neg_probs, method) ==
    LET false_llhs == [i \in 1..Len(obs) |->
                          IF NpTruth(obs[i]) THEN false_pos_probs[i]
                          ELSE true_neg_probs[i]]
        nans_masked == [i \in 1..Len(obs) |->
                           IF IsNull(obs[i]) THEN One ELSE false_llhs[i]]
    IN  NpMethod(method, nans_masked)

_false_estimate(obs, false_pos_probs, true_neg_probs, method) ==
    LET false_llhs == [i \in 1..Len(obs) |->
                          IF NpTruth(obs[i]) THEN false_pos_probs[i]
                          ELSE true_neg_probs[i]]
        nans_masked == [i \in 1..Len(obs) |->
                           IF IsNull(obs[i])
                           THEN (IF method = "prod" THEN One ELSE 0)
                           ELSE false_llhs[i]]
    IN  NpMethod(method, nans_masked)

_true_estimate(obs, true_pos_probs, false_neg_probs, method) ==
    LET true_llhs == [i \in 1..Len(obs) |->
                         IF NpTruth(obs[i]) THEN true_pos_probs[i]
                         ELSE false_neg_probs[i]]
        nans_masked == [i \in 1..Len(obs) |->
                           IF IsNull(obs[i])
                           THEN (IF method = "prod" THEN One ELSE 0)
                           ELSE true_llhs[i]]
    IN  NpMethod(method, nans_masked)

\* 1 - probs, elementwise
OneMinus(probs) == [i \in 1..Len(probs) |-> One - probs[i]]

\* a variant of _max_likelihood that decides a tie for involvement
_max_likelihood_or_equal(obs, specificities, sensitivities) ==
    LET healthy_llh == _false_estimate(obs, OneMinus(specificities), specificities, "prod")
        involved_llhs == _true_estimate(obs, sensitivities, OneMinus(sensitivities), "prod")
    IN  healthy_llh <= involved_llhs

_max_likelihood(obs, specificities, sensitivities) ==
    LET healthy_llh == _false_estimate(obs, OneMinus(specificities), specificities, "prod")
        involved_llhs == _true_estimate(obs, sensitivities, OneMinus(sensitivities), "prod")
    IN  healthy_llh < involved_llhs

_rank_trustworthy(obs, specificities, sensitivities) ==
    LET healthy_llh == _false_estimate(obs, OneMinus(specificities), specificities, "max")
        involved_llhs == _true_estimate(obs, sensitivities, OneMinus(sensitivities), "max")
    IN  healthy_llh < involved_llhs

\* funcs1d[method]
funcs1d(method, obs, specificities, sensitivities) ==
    IF method = "max_llh" THEN _max_likelihood(obs, specificities, sensitivities)
    ELSE _rank_trustworthy(obs, specificities, sensitivities)

\* modalities or get_default_modalities(): None and the empty dict are falsy
OrDefaultModalities(modalities) ==
    IF modalities = None THEN get_default_modalities
    ELSE IF modalities.items = <<>> THEN get_default_modalities
    ELSE modalities

\* a variant of combine that takes the sensitivities and specificities of
\* all requested modalities, the absent ones included
combine_unfiltered_configs(df, modalities, method) ==
    LET requested == OrDefaultModalities(modalities).items
        present == SelectSeq(requested, LAMBDA item : item.name \in get_modalities(df))
        diagnosis_stack ==
            align_diagnoses(df, [i \in 1..Len(present) |-> present[i].name])
        n == Len(df.index)
    IN  IF Len(diagnosis_stack) = 0 THEN IndexError
        ELSE LET columns == DOMAIN diagnosis_stack[1]
                 obs(sub, r) == [i \in 1..Len(diagnosis_stack) |-> diagnosis_stack[i][sub][r]]
             IN  Ok([index |-> RangeIndex(n),
                     cols |-> [sub \in columns |->
                         [r \in 1..n |->
                             BoolCell(funcs1d(method, obs(sub, r),
                                 [i \in 1..Len(present) |-> requested[i].config.spec],
                                 [i \in 1..Len(present) |-> requested[i].config.sens]))]]])

\* df.ly.combine(modalities, method).  np.apply_along_axis calls
\* funcs1d[method] once for each row and column, with the observations of
\* the stacked modalities at that place.
combine(df, modalities, method) ==
    LET requested == OrDefaultModalities(modalities).items
        present == SelectSeq(requested, LAMBDA item : item.name \in get_modalities(df))
        diagnosis_stack ==
            align_diagnoses(df, [i \in 1..Len(present) |-> present[i].name])
        n == Len(df.index)
    IN  IF Len(diagnosis_stack) = 0 THEN IndexError
        ELSE LET columns == DOMAIN diagnosis_stack[1]
                 obs(sub, r) == [i \in 1..Len(diagnosis_stack) |-> diagnosis_stack[i][sub][r]]
             IN  Ok([index |-> RangeIndex(n),
                     cols |-> [sub \in columns |->
                         [r \in 1..n |->
                             BoolCell(funcs1d(method, obs(sub, r),
                                 [i \in 1..Len(present) |-> present[i].config.spec],
                                 [i \in 1..Len(present) |-> present[i].config.sens]))]]])

-----------------------------------------------------------------------------
(* The tables and arguments combine is called with.                        *)

MaxCRows == 1     \* rows of a table with diagnoses
MaxLnls == 2      \* lymph node levels a modality reports on

\* the modalities a table may hold
TableModalities == {"CT", "MRI", "pathology"}

\* an observation: true, false or unknown
Observations == {BoolCell(TRUE), BoolCell(FALSE), Null}

LnlColumns == {<<m, "ipsi", _LNLS[k]>> : m \in TableModalities, k \in 1..MaxLnls}

\* a table with the patient's age, the given diagnosis columns and the
\* date of every modality that has a diagnosis column
DiagnosisTable(n, cells) ==
    LET mods == {key[1] : key \in DOMAIN cells}
    IN  [index |-> RangeIndex(n),
         cols |-> (AgeCol :> [r \in 1..n |-> IntCell(60 + r)])
               @@ [key \in {<<m, "info", "date">> : m \in mods} |->
                      [r \in 1..n |-> StrCell("2020-01-01")]]
               @@ cells]

DiagnosisTables ==
    UNION {UNION {{DiagnosisTable(n, cells) : cells \in [keys -> [1..n -> Observations]]} :
                     keys \in SUBSET LnlColumns} :
              n \in 1..MaxCRows}

\* the dicts of modalities combine is called with, besides None: the empty
\* dict, a dict whose first modality no table holds, a dict in another order
\* than the table's, and a dict of one modality that no table holds
ModalityDicts ==
    { Dict(<<>>),
      Dict(<< Item("PET", ModalityConfig(One, One, "clinical")),
              Item("CT", ModalityConfig(80, 60, "clinical")),
              Item("MRI", ModalityConfig(90, 70, "clinical")) >>),
      Dict(<< Item("MRI", ModalityConfig(50, 50, "clinical")),
              Item("pathology", ModalityConfig(One, One, "pathological")) >>),
      Dict(<< Item("PET", ModalityConfig(86, 79, "clinical")) >>) }

Methods == {"max_llh", "rank"}

InitC ==
    /\ c_pc = "start"
    /\ c_df \in DiagnosisTables
    /\ c_modalities \in ModalityDicts \cup {None}
    /\ c_method \in Methods
    /\ c_result = NoTable
    /\ c_err = NoError
    /\ IdleT
    /\ IdleV
    /\ IdleB
    /\ IdleQ
    /\ IdleP
    /\ IdleM
    /\ IdleI
    /\ IdleL
    /\ IdleD

\* df.ly.combine(modalities, method) returns
C_Combine ==
    /\ c_pc = "start"
    /\ LET outcome == combine(c_df, c_modalities, c_method)
       IN  /\ ~outcome.raised
           /\ c_result' = outcome.value
    /\ c_pc' = "combined"
    /\ UNCHANGED <<c_df, c_modalities, c_method, c_err>>
    /\ UNCHANGED not_C

\* df.ly.combine(modalities, method) raises
C_CombineRaises ==
    /\ c_pc = "start"
    /\ LET outcome == combine(c_df, c_modalities, c_method)
       IN  /\ outcome.raised
           /\ c_err' = outcome.error
    /\ c_pc' = "raised"
    /\ UNCHANGED <<c_df, c_modalities, c_method, c_result>>
    /\ UNCHANGED not_C

NextC ==
    \/ C_Combine
    \/ C_CombineRaises

SpecC == InitC /\ [][NextC]_vars


-----------------------------------------------------------------------------
(* Properties of combine (SpecC).  They are stated on the table and the    *)
(* dict combine was called with, modality by modality.                     *)

\* the dict in effect: the given one, or the default one
InEffect == OrDefaultModalities(c_modalities).items

RequestedNames == {InEffect[i].name : i \in 1..Len(InEffect)}

ConfigOf(m) == (CHOOSE item \in {InEffect[i] : i \in 1..Len(InEffect)} : item.name = m).config

\* the requested modalities that are top-level groups of the table
Present == {m \in RequestedNames : \E key \in DOMAIN c_df.cols : key[1] = m}

\* what modality m observed at a column <<side, lnl>> in row r
Observed(m, sub, r) ==
    IF <<m, sub[1], sub[2]>> \in DOMAIN c_df.cols
    THEN c_df.cols[<<m, sub[1], sub[2]>>][r] ELSE Null

Known(sub, r) == {m \in Present : ~IsNull(Observed(m, sub, r))}

\* the contributions of one modality, an unknown observation counting as
\* `unknown`
InvolvedContribution(m, o, unknown) ==
    IF IsNull(o) THEN unknown
    ELSE IF o.b THEN ConfigOf(m).sens ELSE One - ConfigOf(m).sens

HealthyContribution(m, o, unknown) ==
    IF IsNull(o) THEN unknown
    ELSE IF o.b THEN One - ConfigOf(m).spec ELSE ConfigOf(m).spec

RECURSIVE ProductOf(_)
ProductOf(f) ==
    IF DOMAIN f = {} THEN 1
    ELSE LET m == CHOOSE x \in DOMAIN f : TRUE
         IN  f[m] * ProductOf([x \in DOMAIN f \ {m} |-> f[x]])

MaximumOf(f) == CHOOSE v \in {f[x] : x \in DOMAIN f} : \A x \in DOMAIN f : f[x] <= v

Involved(sub, r, unknown) ==
    [m \in Present |-> InvolvedContribution(m, Observed(m, sub, r), unknown)]

Healthy(sub, r, unknown) ==
    [m \in Present |-> HealthyContribution(m, Observed(m, sub, r), unknown)]

\* the cells of the table combine returned
Cells == {<<sub, r>> : sub \in DOMAIN c_result.cols, r \in 1..Len(c_df.index)}

\* the diagnosis columns of the present modalities
FusibleColumns ==
    {<<key[2], key[3]>> : key \in {k \in DOMAIN c_df.cols : k[1] \in Present /\ k[2] # "info"}}

C16_RankMaximumNeutralOne ==
    (c_pc = "combined" /\ c_method = "rank") =>
        \A cell \in Cells :
            c_result.cols[cell[1]][cell[2]] =
                BoolCell(MaximumOf(Involved(cell[1], cell[2], One))
                            > MaximumOf(Healthy(cell[1], cell[2], One)))

\* C16, amended: with method "rank" a cell of combine is true exactly when
\* the maximum over the present modalities of the involved contributions
\* is strictly greater than the maximum of the healthy contributions, an
\* unknown observation contributing 0 on both sides: only the known
\* observations count, and a cell without any is false.
C16_RankMaximumNeutralZero ==
    (c_pc = "combined" /\ c_method = "rank") =>
        /\ DOMAIN c_result.cols = FusibleColumns
        /\ \A cell \in Cells :
              /\ c_result.cols[cell[1]][cell[2]] =
                    BoolCell(MaximumOf(Involved(cell[1], cell[2], 0))
                                > MaximumOf(Healthy(cell[1], cell[2], 0)))
              /\ Known(cell[1], cell[2]) = {} =>
                    c_result.cols[cell[1]][cell[2]] = BoolCell(FALSE)

\* combine by rank returned a true cell for which one modality observed
\* true and another one nothing
C16_Witness ==
    /\ c_pc = "combined"
    /\ c_method = "rank"
    /\ \E cell \in Cells :
          /\ c_result.cols[cell[1]][cell[2]] = BoolCell(TRUE)
          /\ Known(cell[1], cell[2]) # {}
          /\ Known(cell[1], cell[2]) # Present

\* the default dict is in effect
DefaultInEffect == OrDefaultModalities(c_modalities) = get_default_modalities

AllKnown(sub, r, b) ==
    /\ Known(sub, r) # {}
    /\ \A m \in Known(sub, r) : Observed(m, sub, r) = BoolCell(b)

\* C17: under the default modalities and method "max_llh" a cell whose
\* known observations are all true is true, a cell whose known
\* observations are all false is false, a cell without a known observation
\* is false, and every cell is true or false, never unknown.
C17_DefaultFusion ==
    (c_pc = "combined" /\ c_method = "max_llh" /\ DefaultInEffect) =>
        \A cell \in Cells :
            LET fused == c_result.cols[cell[1]][cell[2]]
            IN  /\ fused \in {BoolCell(TRUE), BoolCell(FALSE)}
                /\ AllKnown(cell[1], cell[2], TRUE) => fused = BoolCell(TRUE)
                /\ AllKnown(cell[1], cell[2], FALSE) => fused = BoolCell(FALSE)
                /\ Known(cell[1], cell[2]) = {} => fused = BoolCell(FALSE)

\* under the default modalities, MRI, CT and pathology observed (true,
\* true, unknown) in one cell, (false, false, unknown) in another
C17_Witness ==
    /\ c_pc = "combined"
    /\ c_method = "max_llh"
    /\ DefaultInEffect
    /\ Present = {"MRI", "CT", "pathology"}
    /\ \E c1, c2 \in Cells :
          /\ Known(c1[1], c1[2]) = {"MRI", "CT"}
          /\ AllKnown(c1[1], c1[2], TRUE)
          /\ Known(c2[1], c2[2]) = {"MRI", "CT"}
          /\ AllKnown(c2[1], c2[2], FALSE)

\* C18: combine skips every requested modality that is no top-level group
\* of the table and fuses the present ones; this is never an error, also
\* when none of the requested modalities is present.
C18_AbsentModalitiesSkipped ==
    /\ c_pc # "raised"
    /\ c_pc = "combined" => DOMAIN c_result.cols = FusibleColumns


-----------------------------------------------------------------------------
(* utils.py: constructing a ModalityConfig and handing it to combine       *)

\* the values given for spec and for sens, in hundredths: below, at and
\* above either end of the valid range
ProbabilityArgs == {0, 49, 50, 75, One, One + 1}

KindArgs == {"clinical", "pathological", "surgical"}

\* a table with one diagnosis of CT
OneDiagnosis ==
    DiagnosisTable(1, (<<"CT", "ipsi", "I">> :> <<BoolCell(TRUE)>>))

InitM ==
    /\ m_pc = "start"
    /\ m_args \in ProbabilityArgs \X ProbabilityArgs \X KindArgs
    /\ m_config = None
    /\ m_out = NoTable
    /\ m_err = NoError
    /\ IdleT
    /\ IdleV
    /\ IdleB
    /\ IdleQ
    /\ IdleP
    /\ IdleC
    /\ IdleI
    /\ IdleL
    /\ IdleD

\* ModalityConfig(spec=..., sens=..., kind=...) passes pydantic's validation
M_Construct ==
    /\ m_pc = "start"
    /\ LET outcome == ModalityConfig(m_args[1], m_args[2], m_args[3])
       IN  /\ ~outcome.raised
           /\ m_config' = outcome.value
    /\ m_pc' = "constructed"
    /\ UNCHANGED <<m_args, m_out, m_err>>
    /\ UNCHANGED not_M

\* ModalityConfig(spec=..., sens=..., kind=...) raises pydantic's
\* ValidationError
M_ConstructRaises ==
    /\ m_pc = "start"
    /\ LET outcome == ModalityConfig(m_args[1], m_args[2], m_args[3])
       IN  /\ outcome.raised
           /\ m_err' = outcome.error
    /\ m_pc' = "raised"
    /\ UNCHANGED <<m_args, m_config, m_out>>
    /\ UNCHANGED not_M

\* df.ly.combine(modalities={"CT": config}) with the constructed object
M_Combine ==
    /\ m_pc = "constructed"
    /\ LET outcome == combine(OneDiagnosis,
                              Dict(<<[name |-> "CT", config |-> m_config]>>), "max_llh")
       IN  /\ ~outcome.raised
           /\ m_out' = outcome.value
    /\ m_pc' = "combined"
    /\ UNCHANGED <<m_args, m_config, m_err>>
    /\ UNCHANGED not_M

NextM ==
    \/ M_Construct
    \/ M_ConstructRaises
    \/ M_Combine

SpecM == InitM /\ [][NextM]_vars

-----------------------------------------------------------------------------
(* Properties of ModalityConfig (SpecM).                                   *)

InRange(p) == 50 <= p /\ p <= One

\* C19: constructing a ModalityConfig fails whenever its sensitivity or
\* its specificity lies outside [0.5, 1.0] or its kind is neither clinical
\* nor pathological; the ends 0.5 and 1.0 are valid; so every ModalityConfig
\* that reaches combine has both probabilities in range.
C19_ConfigInRangeOrFails ==
    /\ (m_pc # "start" /\ (~InRange(m_args[1]) \/ ~InRange(m_args[2])
                              \/ m_args[3] \notin {"clinical", "pathological"}))
          => (m_pc = "raised" /\ m_err.type = "ValidationError" /\ m_config = None)
    /\ (m_pc # "start" /\ m_args[1] \in {50, One} /\ m_args[2] \in {50, One}
                       /\ m_args[3] \in {"clinical", "pathological"})
          => m_pc # "raised"
    /\ m_pc \in {"constructed", "combined"} =>
          /\ InRange(m_config.spec)
          /\ InRange(m_config.sens)
          /\ m_config = [spec |-> m_args[1], sens |-> m_args[2], kind |-> m_args[3]]
    /\ m_pc = "combined" => m_out # NoTable

\* a ModalityConfig with specificity 0.5 and sensitivity 1.0 reached combine
C19_Witness ==
    /\ m_pc = "combined"
    /\ m_config.spec = 50
    /\ m_config.sens = One


-----------------------------------------------------------------------------
(* accessor.py: infer_sublevels                                            *)

\* a Python list
List(items) == [kind |-> "list", items |-> items]

\* x or default, for a list or dict x: None and the empty one are falsy
OrDefault(x, default) ==
    IF x = None THEN default
    ELSE IF x.items = <<>> THEN default
    ELSE x

\* list(get_default_modalities().keys())
DefaultModalityNames ==
    List([i \in 1..Len(get_default_modalities.items) |->
             get_default_modalities.items[i].name])

DefaultSides == List(<<"ipsi", "contra">>)

\* the default subdivisions
DefaultSubdivisions ==
    Dict(<< [name |-> "I", subids |-> <<"a", "b">>],
            [name |-> "II", subids |-> <<"a", "b">>],
            [name |-> "V", subids |-> <<"a", "b">>] >>)

\* a variant of SublevelStatus: the sublevel gets the superlevel's status
SublevelStatusCopied(cell) == cell

\* the status of a sublevel in a row: False where is_healthy, i.e. where
\* the superlevel == False, and None elsewhere
SublevelStatus(cell) ==
    LET is_healthy == ~IsNull(cell) /\ cell.b = FALSE
    IN  IF is_healthy THEN BoolCell(FALSE) ELSE Null

\* itertools.product(modalities, sides, subdivisions.items()), as a sequence
Product3(modalities, sides, items) ==
    LET ns == Len(sides)
        ni == Len(items)
    IN  [k \in 1..(Len(modalities) * ns * ni) |->
            [modality |-> modalities[((k - 1) \div (ns * ni)) + 1],
             side |-> sides[(((k - 1) \div ni) % ns) + 1],
             item |-> items[((k - 1) % ni) + 1]]]

\* the inner loop over subids: the columns set for one superlevel
SublevelColumns(df, combi) ==
    LET super == df.cols[<<combi.modality, combi.side, combi.item.name>>]
        subids == combi.item.subids
    IN  [key \in {<<combi.modality, combi.side, combi.item.name \o subids[j]>> :
                     j \in 1..Len(subids)} |->
            [r \in 1..Len(df.index) |-> SublevelStatus(super[r])]]

\* the loop over loop_combinations, from combination k on: a combination
\* whose superlevel column is missing is skipped (KeyError), the others
\* set their sublevel columns in result
RECURSIVE InferLoop(_, _, _, _)
InferLoop(df, combinations, k, result) ==
    IF k > Len(combinations) THEN result
    ELSE LET combi == combinations[k]
             found == <<combi.modality, combi.side, combi.item.name>> \in DOMAIN df.cols
         IN  InferLoop(df, combinations, k + 1,
                       IF found THEN SublevelColumns(df, combi) @@ result ELSE result)

\* df.ly.infer_sublevels(modalities, sides, subdivisions)
infer_sublevels(df, modalities, sides, subdivisions) ==
    LET modalities_ == OrDefault(modalities, DefaultModalityNames).items
        sides_ == OrDefault(sides, DefaultSides).items
        subdivisions_ == OrDefault(subdivisions, DefaultSubdivisions).items
        loop_combinations == Product3(modalities_, sides_, subdivisions_)
    IN  [index |-> df.index,
         cols |-> InferLoop(df, loop_combinations, 1, <<>>)]

-----------------------------------------------------------------------------
(* accessor.py: infer_superlevels                                          *)

\* a variant of SuperlevelStatus without the assignment for is_unknown
SuperlevelStatusNoUnknown(cells) ==
    LET is_any_involved == \E j \in 1..Len(cells) : ~IsNull(cells[j]) /\ cells[j].b
    IN  IF is_any_involved THEN BoolCell(TRUE) ELSE BoolCell(FALSE)

\* the status of a superlevel in a row with these cells in its sublevel
\* columns.  DataFrame.any(axis=1) skips nulls: it is true where a cell is
\* true.  The three assignments to result.loc are made in the source's
\* order, a later one replacing an earlier one.
SuperlevelStatus(cells) ==
    LET is_any_involved == \E j \in 1..Len(cells) : ~IsNull(cells[j]) /\ cells[j].b
        are_all_healthy == ~is_any_involved
        is_unknown == \A j \in 1..Len(cells) : IsNull(cells[j])
        first == IF are_all_healthy THEN BoolCell(FALSE) ELSE Null
        second == IF is_any_involved THEN BoolCell(TRUE) ELSE first
    IN  IF is_unknown THEN Null ELSE second

\* sublevel_cols of one combination
sublevel_cols(combi) ==
    [j \in 1..Len(combi.item.subids) |->
        <<combi.modality, combi.side, combi.item.name \o combi.item.subids[j]>>]

\* the column set for one superlevel
SuperlevelColumn(df, combi) ==
    LET cols == sublevel_cols(combi)
    IN  <<combi.modality, combi.side, combi.item.name>> :>
            [r \in 1..Len(df.index) |->
                SuperlevelStatus([j \in 1..Len(cols) |-> df.cols[cols[j]][r]])]

\* the loop over loop_combinations, from combination k on: a combination
\* with a sublevel column missing is skipped (KeyError)
RECURSIVE SuperLoop(_, _, _, _)
SuperLoop(df, combinations, k, result) ==
    IF k > Len(combinations) THEN result
    ELSE LET combi == combinations[k]
             cols == sublevel_cols(combi)
             found == \A j \in 1..Len(cols) : cols[j] \in DOMAIN df.cols
         IN  SuperLoop(df, combinations, k + 1,
                       IF found THEN SuperlevelColumn(df, combi) @@ result ELSE result)

\* df.ly.infer_superlevels(modalities, sides, subdivisions)
infer_superlevels(df, modalities, sides, subdivisions) ==
    LET modalities_ == OrDefault(modalities, DefaultModalityNames).items
        sides_ == OrDefault(sides, DefaultSides).items
        subdivisions_ == OrDefault(subdivisions, DefaultSubdivisions).items
        loop_combinations == Product3(modalities_, sides_, subdivisions_)
    IN  [index |-> df.index,
         cols |-> SuperLoop(df, loop_combinations, 1, <<>>)]

-----------------------------------------------------------------------------
(* The tables and arguments of the two inferences.                         *)

MaxIRows == 2     \* rows of a table with superlevels
MaxICols == 2     \* diagnosis columns of such a table

\* the diagnosis columns a table may hold: superlevels on two sides and
\* for two modalities, both sublevels of one and one sublevel of another
LevelColumns ==
    { <<"MRI", "ipsi", "I">>, <<"MRI", "contra", "I">>, <<"MRI", "ipsi", "II">>,
      <<"CT", "ipsi", "I">>, <<"MRI", "ipsi", "Ia">>, <<"MRI", "ipsi", "Ib">>,
      <<"MRI", "ipsi", "IIa">> }

\* the row labels: 0..n-1, or 1..n as a query that dropped row 0 leaves them
ShiftedIndex(n) == [i \in 1..n |-> i]

LevelTables ==
    UNION {UNION {{[index |-> idx,
                    cols |-> (AgeCol :> [r \in 1..n |-> IntCell(60 + r)]) @@ cells] :
                       cells \in [keys -> [1..n -> Observations]],
                       idx \in {RangeIndex(n), ShiftedIndex(n)}} :
                     keys \in {K \in SUBSET LevelColumns : Cardinality(K) <= MaxICols}} :
              n \in 1..MaxIRows}

InferArgs ==
    [modalities : {None, List(<<"PET", "MRI">>)},
     sides : {None, List(<<"ipsi">>)},
     subdivisions : {None, Dict(<<[name |-> "II", subids |-> <<"a", "b", "c">>]>>)}]

InitI ==
    /\ i_pc = "start"
    /\ i_df \in LevelTables
    /\ i_args \in InferArgs
    /\ i_result = NoTable
    /\ IdleT
    /\ IdleV
    /\ IdleB
    /\ IdleQ
    /\ IdleP
    /\ IdleC
    /\ IdleM
    /\ IdleL
    /\ IdleD

\* df.ly.infer_sublevels(modalities, sides, subdivisions) returns
I_InferSublevels ==
    /\ i_pc = "start"
    /\ i_result' = infer_sublevels(i_df, i_args.modalities, i_args.sides,
                                   i_args.subdivisions)
    /\ i_pc' = "inferred"
    /\ UNCHANGED <<i_df, i_args>>
    /\ UNCHANGED not_I

\* df.ly.infer_superlevels(modalities, sides, subdivisions) returns
I_InferSuperlevels ==
    /\ i_pc = "start"
    /\ i_result' = infer_superlevels(i_df, i_args.modalities, i_args.sides,
                                     i_args.subdivisions)
    /\ i_pc' = "superlevels_inferred"
    /\ UNCHANGED <<i_df, i_args>>
    /\ UNCHANGED not_I

NextI ==
    \/ I_InferSublevels
    \/ I_InferSuperlevels

SpecI == InitI /\ [][NextI]_vars


-----------------------------------------------------------------------------
(* Properties of infer_sublevels (SpecI).                                  *)

ItemsOf(x, default) == LET l == OrDefault(x, default).items IN {l[j] : j \in 1..Len(l)}

\* the requested modalities and sides and the configured subdivisions
IModalities == ItemsOf(i_args.modalities, DefaultModalityNames)
ISides == ItemsOf(i_args.sides, DefaultSides)
ISubdivisions == ItemsOf(i_args.subdivisions, DefaultSubdivisions)

\* the superlevels to infer from, and those of them whose column is present
Configured == {<<m, s, sd.name>> : m \in IModalities, s \in ISides, sd \in ISubdivisions}
PresentSuperlevels == Configured \cap DOMAIN i_df.cols

SublevelsOf(super) ==
    LET sd == CHOOSE x \in ISubdivisions : x.name = super[3]
    IN  {<<super[1], super[2], super[3] \o sd.subids[j]>> : j \in 1..Len(sd.subids)}

\* C20: infer_sublevels, for each requested modality and side and each
\* configured superlevel whose column is present, sets every sublevel to
\* false in the rows where the superlevel is false and to unknown in the
\* rows where it is true or unknown; superlevels whose column is absent
\* are skipped; the returned table holds only the inferred sublevel
\* columns and has the rows of the input table.
C20_SublevelsInferred ==
    i_pc = "inferred" =>
        /\ i_result.index = i_df.index
        /\ DOMAIN i_result.cols = UNION {SublevelsOf(super) : super \in PresentSuperlevels}
        /\ \A super \in PresentSuperlevels : \A sub \in SublevelsOf(super) :
              /\ Len(i_result.cols[sub]) = Len(i_df.index)
              /\ \A r \in 1..Len(i_df.index) :
                    /\ i_df.cols[super][r] = BoolCell(FALSE)
                          => i_result.cols[sub][r] = BoolCell(FALSE)
                    /\ i_df.cols[super][r] \in {BoolCell(TRUE), Null}
                          => i_result.cols[sub][r] = Null

\* sublevels were inferred for a table of two rows whose superlevel is
\* false in one and true in the other, with a column that is no configured
\* superlevel and a configured superlevel that is absent
C20_Witness ==
    /\ i_pc = "inferred"
    /\ \E super \in PresentSuperlevels :
          /\ Len(i_df.index) = 2
          /\ i_df.cols[super][1] = BoolCell(FALSE)
          /\ i_df.cols[super][2] = BoolCell(TRUE)
          /\ \A sub \in SublevelsOf(super) :
                i_result.cols[sub] = <<BoolCell(FALSE), Null>>
    /\ Configured \ DOMAIN i_df.cols # {}
    /\ \E key \in DOMAIN i_df.cols : key # AgeCol /\ key \notin Configured


-----------------------------------------------------------------------------
(* Properties of infer_superlevels (SpecI).                                *)

\* the configured superlevels all of whose sublevel columns are present
Inferable == {super \in Configured : SublevelsOf(super) \subseteq DOMAIN i_df.cols}

\* the cells of the sublevels of a superlevel in row r
SublevelCells(super, r) == {i_df.cols[sub][r] : sub \in SublevelsOf(super)}

\* C21: infer_superlevels, for each requested modality, side and superlevel
\* whose configured sublevel columns are all present, yields false in the
\* rows where all sublevels are false, true in the rows where any sublevel
\* is true and unknown in the rows where all sublevels are unknown; the
\* returned table holds only the inferred superlevel columns.
C21_SuperlevelsInferred ==
    i_pc = "superlevels_inferred" =>
        /\ i_result.index = i_df.index
        /\ DOMAIN i_result.cols = Inferable
        /\ \A super \in Inferable : \A r \in 1..Len(i_df.index) :
              /\ SublevelCells(super, r) = {BoolCell(FALSE)}
                    => i_result.cols[super][r] = BoolCell(FALSE)
              /\ BoolCell(TRUE) \in SublevelCells(super, r)
                    => i_result.cols[super][r] = BoolCell(TRUE)
              /\ SublevelCells(super, r) = {Null}
                    => i_result.cols[super][r] = Null

\* a superlevel was inferred as true from (true, unknown) in one row and
\* as unknown from (unknown, unknown) in the other, while a configured
\* superlevel with a sublevel column missing was skipped
C21_Witness ==
    /\ i_pc = "superlevels_inferred"
    /\ Len(i_df.index) = 2
    /\ \E super \in Inferable :
          /\ SublevelCells(super, 1) = {BoolCell(TRUE), Null}
          /\ SublevelCells(super, 2) = {Null}
          /\ i_result.cols[super] = <<BoolCell(TRUE), Null>>
    /\ Configured \ Inferable # {}

\* the tri-state logical OR of a set of cells
TriStateOr(cells) ==
    IF BoolCell(TRUE) \in cells THEN BoolCell(TRUE)
    ELSE IF cells = {BoolCell(FALSE)} THEN BoolCell(FALSE)
    ELSE Null

\* C22: the inferred superlevel is the tri-state logical OR of its
\* sublevels for every combination of their values: true if any is true,
\* false only if every one is false, unknown otherwise, in particular for
\* a mix of false and unknown.
C22_TriStateOr ==
    i_pc = "superlevels_inferred" =>
        \A super \in Inferable : \A r \in 1..Len(i_df.index) :
            i_result.cols[super][r] = TriStateOr(SublevelCells(super, r))


-----------------------------------------------------------------------------
(* utils.py: update_and_expand, infer_all_levels and                       *)
(* infer_and_combine_levels.  Tables are objects here: the heap is the     *)
(* sequence of the tables that exist, a table object is its position in    *)
(* the heap, copy() makes a new object and update() changes an object in   *)
(* place, for every holder of it.                                          *)

\* a new object with this content: the heap after it, the object being the
\* last one
New(heap, table) == Append(heap, table)

\* left.copy()
CopyOf(heap, obj) == New(heap, heap[obj])

\* the position of a row label in an index, 0 if it is not there
PositionOf(index, label) ==
    IF \E i \in 1..Len(index) : index[i] = label
    THEN CHOOSE i \in 1..Len(index) : index[i] = label
    ELSE 0

\* series.reindex(index): the cells by row label, null where the label is
\* missing
Reindex(cells, from, index) ==
    [i \in 1..Len(index) |->
        IF PositionOf(from, index[i]) = 0 THEN Null
        ELSE cells[PositionOf(from, index[i])]]

\* DataFrame.update(other) with overwrite=True: in the columns both have,
\* every cell for which other has a non-null cell takes other's
Updated(this, other) ==
    [index |-> this.index,
     cols |-> [key \in DOMAIN this.cols |->
                 IF key \notin DOMAIN other.cols THEN this.cols[key]
                 ELSE LET that == Reindex(other.cols[key], other.index, this.index)
                      IN  [i \in 1..Len(this.index) |->
                              IF IsNull(that[i]) THEN this.cols[key][i] ELSE that[i]]]]

\* the loop of update_and_expand: result[column] = right[column] for the
\* columns of right that result lacks
Expanded(this, other) ==
    [index |-> this.index,
     cols |-> [key \in (DOMAIN other.cols) \ (DOMAIN this.cols) |->
                  Reindex(other.cols[key], other.index, this.index)]
              @@ this.cols]

\* heap[obj] := table
Store(heap, obj, table) == [heap EXCEPT ![obj] = table]

\* a variant of update_and_expand that updates left itself
update_and_expand_in_place(heap, left, right) ==
    LET result == left
        updated == Store(heap, result, Updated(heap[result], heap[right]))
    IN  [heap |-> Store(updated, result, Expanded(updated[result], updated[right])),
         obj |-> result]

\* update_and_expand(left, right): the heap after the call and the object
\* returned
update_and_expand(heap, left, right) ==
    LET copied == CopyOf(heap, left)
        result == Len(copied)
        updated == Store(copied, result, Updated(copied[result], copied[right]))
    IN  [heap |-> Store(updated, result, Expanded(updated[result], updated[right])),
         obj |-> result]

\* a variant of MergeSuperlevels that drops what update_and_expand returns
MergeSuperlevelsDropped(heap, result) ==
    LET inferred == New(heap, infer_superlevels(heap[result], None, None, None))
    IN  [heap |-> update_and_expand(inferred, result, Len(inferred)).heap,
         obj |-> result]

\* one step of infer_all_levels: update_and_expand(left=result,
\* right=result.ly.infer_superlevels(**kwargs)), kwargs being empty
MergeSuperlevels(heap, result) ==
    LET inferred == New(heap, infer_superlevels(heap[result], None, None, None))
    IN  update_and_expand(inferred, result, Len(inferred))

\* the other step: update_and_expand(left=result,
\* right=result.ly.infer_sublevels(**kwargs))
MergeSublevels(heap, result) ==
    LET inferred == New(heap, infer_sublevels(heap[result], None, None, None))
    IN  update_and_expand(inferred, result, Len(inferred))

\* infer_all_levels(dataset), called without kwargs
infer_all_levels(heap, data) ==
    LET copied == CopyOf(heap, data)
        first == MergeSuperlevels(copied, Len(copied))
    IN  MergeSublevels(first.heap, first.obj)

\* pd.concat({"max_llh": combined}, axis="columns")
ConcatUnder(key, table) ==
    [index |-> table.index,
     cols |-> [k \in {<<key, sub[1], sub[2]>> : sub \in DOMAIN table.cols} |->
                  table.cols[<<k[2], k[3]>>]]]

\* result.join(max_llh): the rows of result, with the cells of max_llh that
\* carry the same row label; columns that both have are an error
Join(this, other) ==
    IF (DOMAIN this.cols) \cap (DOMAIN other.cols) # {} THEN ValueError
    ELSE Ok([index |-> this.index,
             cols |-> [key \in DOMAIN other.cols |->
                          Reindex(other.cols[key], other.index, this.index)]
                      @@ this.cols])


-----------------------------------------------------------------------------
(* The calls on table objects: the accessor's methods, update_and_expand,  *)
(* infer_all_levels and infer_and_combine_levels, the latter two step by   *)
(* step.                                                                   *)

MaxLRows == 2     \* rows of a table

\* the level columns a table may hold: a superlevel and its two sublevels
SuperAndSublevels ==
    {<<"MRI", "ipsi", "II">>, <<"MRI", "ipsi", "IIa">>, <<"MRI", "ipsi", "IIb">>}

ObjectTables ==
    UNION {UNION {{[DiagnosisTable(n, cells) EXCEPT !.index = idx] :
                      cells \in [keys -> [1..n -> Observations]],
                      idx \in {RangeIndex(n), ShiftedIndex(n)}} :
                     keys \in SUBSET SuperAndSublevels} :
              n \in 1..MaxLRows}

PyBool(b) == [kind |-> "bool", v |-> BoolCell(b)]

\* the predicates of the calls of query and portion
IsInvolved == Q(<<"MRI", "ipsi", "II">>, "==", PyBool(TRUE))
Predicates == {None, IsInvolved, NotQ(IsInvolved)}

\* a table object as a returned value
Object(obj) == [kind |-> "object", obj |-> obj]

\* the tables given as right to update_and_expand: the two inferences from
\* left, and a table that is true in every cell of two level columns
AllInvolved(left) ==
    [index |-> left.index,
     cols |-> [key \in {<<"MRI", "ipsi", "II">>, <<"MRI", "ipsi", "IIb">>} |->
                  [r \in 1..Len(left.index) |-> BoolCell(TRUE)]]]

Rights(left) ==
    {infer_superlevels(left, None, None, None),
     infer_sublevels(left, None, None, None),
     AllInvolved(left)}

NoPredicates == [query |-> None, given |-> None]

\* the calls on a table t: the function, its table arguments and its
\* predicates
Calls(t) ==
    {[op |-> "query", tables |-> <<t>>, query |-> q, given |-> None] :
        q \in Predicates}
    \cup {[op |-> "portion", tables |-> <<t>>, query |-> q, given |-> g] :
        q \in Predicates, g \in Predicates}
    \cup {[op |-> op, tables |-> <<t>>, query |-> None, given |-> None] :
        op \in {"combine", "infer_sublevels", "infer_superlevels",
                "infer_all_levels", "infer_and_combine_levels"}}
    \cup {[op |-> "update_and_expand", tables |-> <<t, right>>,
           query |-> None, given |-> None] : right \in Rights(t)}

InitL ==
    /\ l_pc = "start"
    /\ \E t \in ObjectTables : \E call \in Calls(t) :
          /\ l_op = call.op
          /\ l_args = call
          /\ l_heap = call.tables
    /\ l_result = 0
    /\ l_steps = <<>>
    /\ l_out = None
    /\ l_err = NoError
    /\ IdleT
    /\ IdleV
    /\ IdleB
    /\ IdleQ
    /\ IdleP
    /\ IdleC
    /\ IdleM
    /\ IdleI
    /\ IdleD

\* the first argument: the table object the accessor or function is given
Self == 1

\* the call returns `value`, with the heap as it is then
Returns(heap, value) ==
    /\ l_heap' = heap
    /\ l_out' = value
    /\ l_pc' = "returned"
    /\ UNCHANGED <<l_op, l_args, l_result, l_steps, l_err>>
    /\ UNCHANGED not_L

\* the call raises
Raises(error) ==
    /\ l_err' = error
    /\ l_pc' = "raised"
    /\ UNCHANGED <<l_op, l_args, l_heap, l_result, l_steps, l_out>>
    /\ UNCHANGED not_L

\* df.ly.query(query): self._obj[mask] is a new table
L_Query ==
    /\ l_pc = "start"
    /\ l_op = "query"
    /\ LET outcome == query(l_heap[Self], l_args.query)
       IN  /\ ~outcome.raised
           /\ Returns(New(l_heap, outcome.value), Object(Len(l_heap) + 1))

L_QueryRaises ==
    /\ l_pc = "start"
    /\ l_op = "query"
    /\ LET outcome == query(l_heap[Self], l_args.query)
       IN  /\ outcome.raised
           /\ Raises(outcome.error)

\* df.ly.portion(query, given)
L_Portion ==
    /\ l_pc = "start"
    /\ l_op = "portion"
    /\ LET outcome == portion(l_heap[Self], l_args.query, l_args.given)
       IN  /\ ~outcome.raised
           /\ Returns(l_heap, outcome.value)

L_PortionRaises ==
    /\ l_pc = "start"
    /\ l_op = "portion"
    /\ LET outcome == portion(l_heap[Self], l_args.query, l_args.given)
       IN  /\ outcome.raised
           /\ Raises(outcome.error)

\* df.ly.combine(): the sub-tables are copies, the result is a new table
L_Combine ==
    /\ l_pc = "start"
    /\ l_op = "combine"
    /\ LET outcome == combine(l_heap[Self], None, "max_llh")
       IN  /\ ~outcome.raised
           /\ Returns(New(l_heap, outcome.value), Object(Len(l_heap) + 1))

L_CombineRaises ==
    /\ l_pc = "start"
    /\ l_op = "combine"
    /\ LET outcome == combine(l_heap[Self], None, "max_llh")
       IN  /\ outcome.raised
           /\ Raises(outcome.error)

\* df.ly.infer_sublevels(): result is a copy of self._obj without its
\* columns, and the assignments are made to result
L_InferSublevels ==
    /\ l_pc = "start"
    /\ l_op = "infer_sublevels"
    /\ Returns(New(l_heap, infer_sublevels(l_heap[Self], None, None, None)),
               Object(Len(l_heap) + 1))

\* df.ly.infer_superlevels(), likewise
L_InferSuperlevels ==
    /\ l_pc = "start"
    /\ l_op = "infer_superlevels"
    /\ Returns(New(l_heap, infer_superlevels(l_heap[Self], None, None, None)),
               Object(Len(l_heap) + 1))

\* update_and_expand(left, right)
L_UpdateAndExpand ==
    /\ l_pc = "start"
    /\ l_op = "update_and_expand"
    /\ LET outcome == update_and_expand(l_heap, Self, Self + 1)
       IN  Returns(outcome.heap, Object(outcome.obj))

Levels == {"infer_all_levels", "infer_and_combine_levels"}

Step(name, obj) == [step |-> name, read |-> l_heap[obj]]

\* infer_all_levels: result = dataset.copy()
L_CopyDataset ==
    /\ l_pc = "start"
    /\ l_op \in Levels
    /\ l_heap' = CopyOf(l_heap, Self)
    /\ l_result' = Len(l_heap) + 1
    /\ l_pc' = "copied"
    /\ UNCHANGED <<l_op, l_args, l_steps, l_out, l_err>>
    /\ UNCHANGED not_L

\* infer_all_levels: result = update_and_expand(left=result,
\* right=result.ly.infer_superlevels())
L_MergeSuperlevels ==
    /\ l_pc = "copied"
    /\ LET outcome == MergeSuperlevels(l_heap, l_result)
       IN  /\ l_heap' = outcome.heap
           /\ l_result' = outcome.obj
    /\ l_steps' = Append(l_steps, Step("infer_superlevels", l_result))
    /\ l_pc' = "superlevels_merged"
    /\ UNCHANGED <<l_op, l_args, l_out, l_err>>
    /\ UNCHANGED not_L

\* infer_all_levels: update_and_expand(left=result,
\* right=result.ly.infer_sublevels()), which is what it returns
L_MergeSublevels ==
    /\ l_pc = "superlevels_merged"
    /\ LET outcome == MergeSublevels(l_heap, l_result)
       IN  /\ l_heap' = outcome.heap
           /\ l_result' = outcome.obj
    /\ l_steps' = Append(l_steps, Step("infer_sublevels", l_result))
    /\ l_pc' = "levels_inferred"
    /\ UNCHANGED <<l_op, l_args, l_out, l_err>>
    /\ UNCHANGED not_L

\* infer_all_levels returns to its caller
L_ReturnLevels ==
    /\ l_pc = "levels_inferred"
    /\ l_op = "infer_all_levels"
    /\ Returns(l_heap, Object(l_result))

\* infer_all_levels is applied to the table it returned
L_ApplyAgain ==
    /\ l_pc = "returned"
    /\ l_op = "infer_all_levels"
    /\ LET outcome == infer_all_levels(l_heap, l_out.obj)
       IN  /\ l_heap' = outcome.heap
           /\ l_result' = outcome.obj
    /\ l_pc' = "applied_again"
    /\ UNCHANGED <<l_op, l_args, l_steps, l_out, l_err>>
    /\ UNCHANGED not_L

\* infer_and_combine_levels: max_llh = pd.concat({"max_llh":
\* result.ly.combine()}, axis="columns")
L_CombineLevels ==
    /\ l_pc = "levels_inferred"
    /\ l_op = "infer_and_combine_levels"
    /\ LET outcome == combine(l_heap[l_result], None, "max_llh")
       IN  /\ ~outcome.raised
           /\ l_heap' = New(l_heap, ConcatUnder("max_llh", outcome.value))
    /\ l_steps' = Append(l_steps, Step("combine", l_result))
    /\ l_pc' = "combined"
    /\ UNCHANGED <<l_op, l_args, l_result, l_out, l_err>>
    /\ UNCHANGED not_L

\* infer_and_combine_levels: combine raises
L_CombineLevelsRaises ==
    /\ l_pc = "levels_inferred"
    /\ l_op = "infer_and_combine_levels"
    /\ LET outcome == combine(l_heap[l_result], None, "max_llh")
       IN  /\ outcome.raised
           /\ l_err' = outcome.error
    /\ l_steps' = Append(l_steps, Step("combine", l_result))
    /\ l_pc' = "raised"
    /\ UNCHANGED <<l_op, l_args, l_heap, l_result, l_out>>
    /\ UNCHANGED not_L

\* infer_and_combine_levels: return result.join(max_llh), max_llh being
\* the newest object
L_Join ==
    /\ l_pc = "combined"
    /\ LET outcome == Join(l_heap[l_result], l_heap[Len(l_heap)])
       IN  /\ ~outcome.raised
           /\ Returns(New(l_heap, outcome.value), Object(Len(l_heap) + 1))

NextL ==
    \/ L_Query
    \/ L_QueryRaises
    \/ L_Portion
    \/ L_PortionRaises
    \/ L_Combine
    \/ L_CombineRaises
    \/ L_InferSublevels
    \/ L_InferSuperlevels
    \/ L_UpdateAndExpand
    \/ L_CopyDataset
    \/ L_MergeSuperlevels
    \/ L_MergeSublevels
    \/ L_ReturnLevels
    \/ L_ApplyAgain
    \/ L_CombineLevels
    \/ L_CombineLevelsRaises
    \/ L_Join

SpecL == InitL /\ [][NextL]_vars


-----------------------------------------------------------------------------
(* Properties of the calls on table objects (SpecL).                       *)

\* the table the call was given, as it was at the call
Given == l_args.tables[1]

\* the table the call returned
ReturnedTable == l_heap[l_out.obj]

\* every cell of `before` that holds a known value holds it in `after`
KnownKept(before, after) ==
    \A key \in DOMAIN before.cols : \A i \in 1..Len(before.index) :
        ~IsNull(before.cols[key][i]) =>
            /\ key \in DOMAIN after.cols
            /\ after.cols[key][i] = before.cols[key][i]

\* C23: merging derived columns into the table (update_and_expand, as
\* used by infer_all_levels and infer_and_combine_levels) fills only cells
\* that were absent or unknown: every cell that holds a known value in the
\* input table holds the same value in the merged result.
C23_KnownValuesKept ==
    (l_pc = "returned"
        /\ l_op \in {"update_and_expand", "infer_all_levels", "infer_and_combine_levels"})
    => KnownKept(Given, ReturnedTable)


\* the names of the steps made so far
StepNames == [k \in 1..Len(l_steps) |-> l_steps[k].step]

IsPrefix(s, t) == Len(s) <= Len(t) /\ \A k \in 1..Len(s) : s[k] = t[k]

\* every known cell of the derived table is in `table`
Sees(table, derived) ==
    \A key \in DOMAIN derived.cols : \A i \in 1..Len(derived.index) :
        ~IsNull(derived.cols[key][i]) =>
            /\ key \in DOMAIN table.cols
            /\ table.cols[key][i] = derived.cols[key][i]

\* what the first two steps inferred from the tables they read
InferredSuperlevels == infer_superlevels(l_steps[1].read, None, None, None)
InferredSublevels == infer_sublevels(l_steps[2].read, None, None, None)

CellOf(table, key, i) ==
    IF key \in DOMAIN table.cols THEN table.cols[key][i] ELSE Null

\* a known cell of `derived` that is null or absent in `table`
Fills(derived, table) ==
    \E key \in DOMAIN derived.cols : \E i \in 1..Len(derived.index) :
        /\ ~IsNull(derived.cols[key][i])
        /\ IsNull(CellOf(table, key, i))

InputsUnchanged ==
    \A k \in 1..Len(l_args.tables) : l_heap[k] = l_args.tables[k]

\* the table a call returns is none of the objects it was given
ReturnsNewTable ==
    (l_pc = "returned" /\ l_op # "portion") => l_out.obj > Len(l_args.tables)

\* the mask of the predicate of the call on the table given
GivenMask == execute(OrNoneQ(l_args.query), Given)

\* the rows of the table given that have an entry in the mask
HasMaskEntry(i) == \E j \in 1..Len(GivenMask.mask.index) :
                       GivenMask.mask.index[j] = Given.index[i]
MaskEntry(i) ==
    LET j == CHOOSE j \in 1..Len(GivenMask.mask.index) :
                 GivenMask.mask.index[j] = Given.index[i]
    IN  GivenMask.mask.values[j]

\* the positions of the rows whose mask entry is true
Kept == {i \in 1..Len(Given.index) : HasMaskEntry(i) /\ MaskEntry(i)}

\* the j-th of them in the order of the table
KeptAt(j) == CHOOSE i \in Kept : Cardinality({k \in Kept : k < i}) = j - 1

RowsKeptInOrder(table) ==
    /\ Len(table.index) = Cardinality(Kept)
    /\ DOMAIN table.cols = DOMAIN Given.cols
    /\ \A j \in 1..Len(table.index) :
          /\ table.index[j] = Given.index[KeptAt(j)]
          /\ \A key \in DOMAIN table.cols :
                table.cols[key][j] = Given.cols[key][KeptAt(j)]

QueryReturnsKeptRows ==
    l_op = "query" =>
        /\ l_pc = "returned" => RowsKeptInOrder(ReturnedTable)
        /\ l_pc = "raised" =>
              \/ GivenMask.raised
              \/ \E i \in 1..Len(Given.index) : ~HasMaskEntry(i)

C26_QueryWitness ==
    /\ l_op = "query"
    /\ l_pc = "returned"
    /\ Len(Given.index) = 2
    /\ Len(ReturnedTable.index) = 1
    /\ l_heap[1] = Given


\* the default (modality, side, superlevel) combinations whose superlevel
\* column is in the table
SuperlevelsIn(table) ==
    {combi \in ItemsOf(None, DefaultModalityNames)
                 \X ItemsOf(None, DefaultSides)
                 \X ItemsOf(None, DefaultSubdivisions) :
        <<combi[1], combi[2], combi[3].name>> \in DOMAIN table.cols}

\* no row holds a healthy superlevel together with an involved sublevel
LevelsConsistent(table) ==
    \A combi \in SuperlevelsIn(table) : \A i \in 1..Len(table.index) :
        table.cols[<<combi[1], combi[2], combi[3].name>>][i] = BoolCell(FALSE) =>
            \A k \in 1..Len(combi[3].subids) :
                CellOf(table, <<combi[1], combi[2],
                                combi[3].name \o combi[3].subids[k]>>, i)
                    # BoolCell(TRUE)

\* the table the second application of infer_all_levels returns
AppliedAgain == l_heap[l_result]

\* C30, consistency: the table infer_all_levels returns has no row in which
\* a superlevel is false while one of its sublevels is true.
C30_ResultConsistent ==
    (l_op = "infer_all_levels" /\ l_pc \in {"returned", "applied_again"})
        => LevelsConsistent(ReturnedTable)

\* C30: the result of infer_all_levels is consistent, and applying
\* infer_all_levels to it a second time changes nothing.
C30_ConsistentAndIdempotent ==
    /\ C30_ResultConsistent
    /\ (l_op = "infer_all_levels" /\ l_pc = "applied_again")
          => AppliedAgain = ReturnedTable

\* infer_all_levels returned a consistent table from an inconsistent one
C30_Witness ==
    /\ l_op = "infer_all_levels"
    /\ l_pc = "applied_again"
    /\ ~LevelsConsistent(Given)
    /\ LevelsConsistent(ReturnedTable)
    /\ AppliedAgain = ReturnedTable


\* the masks of the two predicates of a call of portion
PortionGivenMask == execute(OrNoneQ(l_args.given), Given)
PortionQueryMask == execute(OrNoneQ(l_args.query), Given)

\* both predicates can be executed on the table, and `given` selects no row
GivenSelectsNoRow ==
    /\ ~PortionGivenMask.raised
    /\ ~PortionQueryMask.raised
    /\ SeriesSum(PortionGivenMask.mask) = 0

\* C28, counts: what portion returns satisfies 0 <= match <= total, and
\* portion never raises the ValueError of QueryPortion's check.
C28_CountsValid ==
    l_op = "portion" =>
        /\ l_pc = "returned" => (0 <= l_out.match /\ l_out.match <= l_out.total)
        /\ l_pc = "raised" => l_err # ValueError.error

\* C28: the counts of portion are valid, and when `given` selects no row
\* portion returns QueryPortion(match=0, total=0) instead of raising.
C28_PortionOfNoRows ==
    /\ C28_CountsValid
    /\ (l_op = "portion" /\ GivenSelectsNoRow) =>
          /\ l_pc # "raised"
          /\ l_pc = "returned" => l_out = [match |-> 0, total |-> 0]

\* portion returned QueryPortion(0, 0) for a `given` that selects no row
C28_Witness ==
    /\ l_op = "portion"
    /\ l_pc = "returned"
    /\ GivenSelectsNoRow
    /\ l_out = [match |-> 0, total |-> 0]


\* the sequences without repetition of the elements of a set
Orders(S) ==
    {order \in UNION {[1..k -> S] : k \in 0..Cardinality(S)} :
        \A i, j \in 1..Len(order) : order[i] = order[j] => i = j}

\* the (side, level) columns the selected modalities report on
UnionOfColumns(selected) ==
    {<<key[2], key[3]>> : key \in {c \in DOMAIN c_df.cols :
                                      c[1] \in selected /\ c[2] # "info"}}

\* the sub-tables of the stack all have the union of the columns of the
\* selected modalities and the rows of the table; each holds the modality's
\* own observations and is unknown where the modality reports nothing
AlignedTo(diagnosis_stack, modalities) ==
    LET selected == {modalities[i] : i \in 1..Len(modalities)}
        n == Len(c_df.index)
    IN  /\ Len(diagnosis_stack) = Len(modalities)
        /\ \A i \in 1..Len(diagnosis_stack) :
              /\ DOMAIN diagnosis_stack[i] = UnionOfColumns(selected)
              /\ \A sub \in DOMAIN diagnosis_stack[i] :
                    /\ sub[1] # "info"
                    /\ Len(diagnosis_stack[i][sub]) = n
                    /\ LET key == <<modalities[i], sub[1], sub[2]>>
                       IN  IF key \in DOMAIN c_df.cols
                           THEN diagnosis_stack[i][sub] = c_df.cols[key]
                           ELSE \A r \in 1..n : IsNull(diagnosis_stack[i][sub][r])

\* C27: for the modalities of the table in any number and order,
\* align_diagnoses returns sub-tables that share one column index, the union
\* of the (side, level) columns of the selected modalities without `info`,
\* and the rows of the table; what a modality does not report is unknown in
\* its sub-table; and the table combine returns has this column index.
C27_SharedColumnIndex ==
    /\ c_pc # "idle" =>
          \A modalities \in Orders(get_modalities(c_df)) :
              AlignedTo(align_diagnoses(c_df, modalities), modalities)
    /\ c_pc = "combined" =>
          DOMAIN c_result.cols = UnionOfColumns(RequestedNames \cap get_modalities(c_df))

\* combine returned for a table with three modalities that report on
\* different levels
C27_Witness ==
    /\ c_pc = "combined"
    /\ Cardinality(RequestedNames \cap get_modalities(c_df)) = 3
    /\ \E m1, m2 \in RequestedNames \cap get_modalities(c_df) :
          UnionOfColumns({m1}) \ UnionOfColumns({m2}) # {}
    /\ \E m \in get_modalities(c_df) :
          UnionOfColumns({m}) # UnionOfColumns(get_modalities(c_df))
    /\ DOMAIN c_result.cols = UnionOfColumns(get_modalities(c_df))


MaxOthers == 3    \* modalities that report next to pathology

\* the default modalities of which a table holds pathology and `others`,
\* in the order of the defaults, as combine filters them
DefaultsAmong(others) ==
    SelectSeq(get_default_modalities.items,
              LAMBDA item : item.name \in others \cup {"pathology"})

\* funcs1d[method] on one observation of each of these modalities
FusedDefault(method, present, obs) ==
    funcs1d(method, obs,
            [i \in 1..Len(present) |-> present[i].config.spec],
            [i \in 1..Len(present) |-> present[i].config.sens])

\* the names of the default modalities
DefaultModalityNamesSet ==
    {get_default_modalities.items[i].name : i \in 1..Len(get_default_modalities.items)}

\* every combination of observations of pathology and up to MaxOthers
\* other default modalities is fused to what pathology observed, if known
PathologyDecidesAmongDefaults ==
    \A others \in {S \in SUBSET (DefaultModalityNamesSet \ {"pathology"}) :
                       Cardinality(S) <= MaxOthers} :
        LET present == DefaultsAmong(others)
            at == CHOOSE i \in 1..Len(present) : present[i].name = "pathology"
        IN  \A obs \in [1..Len(present) -> Observations] :
                ~IsNull(obs[at]) =>
                    BoolCell(FusedDefault(c_method, present, obs)) = obs[at]

\* C29: under the default modalities, with either method, a cell for which
\* pathology has a known observation is fused to that observation,
\* whatever the other modalities observed: in the table combine returns,
\* and for every combination of observations of the default modalities
\* that report next to pathology.
C29_PathologyDecides ==
    (c_pc = "combined" /\ DefaultInEffect) =>
        /\ \A cell \in Cells :
              "pathology" \in Known(cell[1], cell[2]) =>
                  c_result.cols[cell[1]][cell[2]] = Observed("pathology", cell[1], cell[2])
        /\ Present = {"pathology"} => PathologyDecidesAmongDefaults

\* under the default modalities, pathology observed the opposite of what
\* both CT and MRI observed, and the fused cell is what pathology observed
C29_Witness ==
    /\ c_pc = "combined"
    /\ DefaultInEffect
    /\ \E cell \in Cells :
          /\ Known(cell[1], cell[2]) = {"CT", "MRI", "pathology"}
          /\ Observed("pathology", cell[1], cell[2]) = BoolCell(FALSE)
          /\ Observed("CT", cell[1], cell[2]) = BoolCell(TRUE)
          /\ Observed("MRI", cell[1], cell[2]) = BoolCell(TRUE)
          /\ c_result.cols[cell[1]][cell[2]] = BoolCell(FALSE)


-----------------------------------------------------------------------------
(* LyDatasetConfig.load, step by step: the read from disk, the except      *)
(* clause, the read from GitHub, and the return.                           *)

\* LyDatasetConfig(year, institution, subsite, repo, ref)
LyDatasetConfig(year, institution, subsite, repo, ref) ==
    [year |-> year, institution |-> institution, subsite |-> subsite,
     repo |-> repo, ref |-> ref]

\* LyDatasetConfig.name: f"{self.year}-{self.institution}-{self.subsite}"
name(self) == ToString(self.year) \o "-" \o self.institution \o "-" \o self.subsite

\* LyDatasetConfig.path: install_loc / self.name / "data.csv"
path(self) == "lydata/" \o name(self) \o "/data.csv"

\* LyDatasetConfig.get_url(file)
get_url(self, file) ==
    "https://raw.githubusercontent.com/" \o self.repo \o "/" \o self.ref \o "/"
        \o ToString(self.year) \o "-" \o self.institution \o "-" \o self.subsite
        \o "/" \o file

\* a dict as the sequence of its <<key, value>> items; d[key] = value
SetItem(d, key, value) ==
    IF \E i \in 1..Len(d) : d[i][1] = key
    THEN [i \in 1..Len(d) |-> IF d[i][1] = key THEN <<key, value>> ELSE d[i]]
    ELSE Append(d, <<key, value>>)

\* d.update(other)
RECURSIVE DictUpdated(_, _)
DictUpdated(d, other) ==
    IF other = <<>> THEN d
    ELSE DictUpdated(SetItem(d, Head(other)[1], Head(other)[2]), Tail(other))

\* kwargs = {"header": [0, 1, 2]}; kwargs.update(load_kwargs)
kwargs(load_kwargs) == DictUpdated(<< <<"header", List(<<0, 1, 2>>)>> >>, load_kwargs)

\* an exception of read_csv
ReadError(type) == [raised |-> TRUE, error |-> [type |-> type, key |-> <<>>]]

SkipDiskError == [type |-> "SkipDiskError", key |-> <<>>]

\* a variant of Caught: a bare except clause
CaughtAny(err) == TRUE

\* except (FileNotFoundError, pd.errors.ParserError, SkipDiskError)
Caught(err) == err.type \in {"FileNotFoundError", "ParserError", "SkipDiskError"}

\* the dataset configs, arguments and outcomes of read_csv of a load
LoadConfs ==
    {LyDatasetConfig(2021, "usz", "oropharynx", "rmnldwg/lydata", "main"),
     LyDatasetConfig(2023, "clb", "multisite", "rmnldwg/lydata", "6ac98d")}

LoadKwargs ==
    {<<>>,
     << <<"header", List(<<0, 1>>)>> >>,
     << <<"sep", PyStr(";")>> >>}

DiskOutcomes ==
    {Ok(ValidTable)}
    \cup {ReadError(type) : type \in {"FileNotFoundError", "ParserError", "PermissionError",
                                      "UnicodeDecodeError", "EmptyDataError"}}

RemoteOutcomes ==
    {Ok(ValidTableWithModality)}
    \cup {ReadError(type) : type \in {"HTTPError", "URLError", "ParserError"}}

InitD ==
    /\ d_pc = "start"
    /\ d_conf \in LoadConfs
    /\ d_skip_disk \in BOOLEAN
    /\ d_load_kwargs \in LoadKwargs
    /\ d_disk \in DiskOutcomes
    /\ d_remote \in RemoteOutcomes
    /\ d_reads = <<>>
    /\ d_df = NoTable
    /\ d_err = NoError
    /\ IdleT
    /\ IdleV
    /\ IdleB
    /\ IdleQ
    /\ IdleP
    /\ IdleC
    /\ IdleM
    /\ IdleI
    /\ IdleL

\* a call pd.read_csv(location, **kwargs)
ReadCsv(location) == [location |-> location, kwargs |-> kwargs(d_load_kwargs)]

\* if skip_disk: raise SkipDiskError, which the except clause catches
\* without any read
D_SkipDisk ==
    /\ d_pc = "start"
    /\ d_skip_disk
    /\ Caught(SkipDiskError)
    /\ d_pc' = "except"
    /\ UNCHANGED <<d_conf, d_skip_disk, d_load_kwargs, d_disk, d_remote, d_reads,
                   d_df, d_err>>
    /\ UNCHANGED not_D

\* df = pd.read_csv(self.path, **kwargs) returns a table
D_ReadDisk ==
    /\ d_pc = "start"
    /\ ~d_skip_disk
    /\ ~d_disk.raised
    /\ d_reads' = Append(d_reads, ReadCsv(path(d_conf)))
    /\ d_df' = d_disk.value
    /\ d_pc' = "loaded"
    /\ UNCHANGED <<d_conf, d_skip_disk, d_load_kwargs, d_disk, d_remote, d_err>>
    /\ UNCHANGED not_D

\* pd.read_csv(self.path, **kwargs) raises an exception the except clause
\* catches
D_ReadDiskCaught ==
    /\ d_pc = "start"
    /\ ~d_skip_disk
    /\ d_disk.raised
    /\ Caught(d_disk.error)
    /\ d_reads' = Append(d_reads, ReadCsv(path(d_conf)))
    /\ d_pc' = "except"
    /\ UNCHANGED <<d_conf, d_skip_disk, d_load_kwargs, d_disk, d_remote, d_df, d_err>>
    /\ UNCHANGED not_D

\* pd.read_csv(self.path, **kwargs) raises any other exception, which
\* leaves load
D_ReadDiskRaises ==
    /\ d_pc = "start"
    /\ ~d_skip_disk
    /\ d_disk.raised
    /\ ~Caught(d_disk.error)
    /\ d_reads' = Append(d_reads, ReadCsv(path(d_conf)))
    /\ d_err' = d_disk.error
    /\ d_pc' = "raised"
    /\ UNCHANGED <<d_conf, d_skip_disk, d_load_kwargs, d_disk, d_remote, d_df>>
    /\ UNCHANGED not_D

\* in the except clause: df = pd.read_csv(self.get_url("data.csv"),
\* **kwargs) returns a table
D_ReadRemote ==
    /\ d_pc = "except"
    /\ ~d_remote.raised
    /\ d_reads' = Append(d_reads, ReadCsv(get_url(d_conf, "data.csv")))
    /\ d_df' = d_remote.value
    /\ d_pc' = "loaded"
    /\ UNCHANGED <<d_conf, d_skip_disk, d_load_kwargs, d_disk, d_remote, d_err>>
    /\ UNCHANGED not_D

\* in the except clause: the read of the URL raises, which leaves load
D_ReadRemoteRaises ==
    /\ d_pc = "except"
    /\ d_remote.raised
    /\ d_reads' = Append(d_reads, ReadCsv(get_url(d_conf, "data.csv")))
    /\ d_err' = d_remote.error
    /\ d_pc' = "raised"
    /\ UNCHANGED <<d_conf, d_skip_disk, d_load_kwargs, d_disk, d_remote, d_df>>
    /\ UNCHANGED not_D

\* df.attrs.update(self.model_dump()); return df
D_Return ==
    /\ d_pc = "loaded"
    /\ d_df' = [table |-> d_df, attrs |-> d_conf]
    /\ d_pc' = "returned"
    /\ UNCHANGED <<d_conf, d_skip_disk, d_load_kwargs, d_disk, d_remote, d_reads, d_err>>
    /\ UNCHANGED not_D

NextD ==
    \/ D_SkipDisk
    \/ D_ReadDisk
    \/ D_ReadDiskCaught
    \/ D_ReadDiskRaises
    \/ D_ReadRemote
    \/ D_ReadRemoteRaises
    \/ D_Return

SpecD == InitD /\ [][NextD]_vars


-----------------------------------------------------------------------------
(* Properties of load (SpecD).                                             *)

\* the locations read so far, in the order of the reads
ReadLocations == [k \in 1..Len(d_reads) |-> d_reads[k].location]

Disk == path(d_conf)
Remote == get_url(d_conf, "data.csv")

WasRead(location) == \E k \in 1..Len(d_reads) : d_reads[k].location = location

\* the disk read failed with not-found or parse-failure
DiskFellBack ==
    /\ d_disk.raised
    /\ d_disk.error.type \in {"FileNotFoundError", "ParserError"}

\* the order of the reads: the disk first unless it is skipped, the remote
\* location only after the skip or after a disk read that fell back, each
\* location at most once
ReadsInOrder ==
    /\ d_pc # "idle" => IsPrefix(ReadLocations,
                                 IF d_skip_disk THEN <<Remote>> ELSE <<Disk, Remote>>)
    /\ WasRead(Remote) => (d_skip_disk \/ DiskFellBack)
    /\ d_pc \in {"except", "loaded", "returned", "raised"} =>
          (d_skip_disk \/ WasRead(Disk))

\* how load ends: with the disk's table; with the disk's exception, the
\* remote location never read; with the remote table; or with the
\* exception of the one remote read
EndsAsRead ==
    /\ d_pc = "raised" =>
          \/ /\ ~d_skip_disk
             /\ d_disk.raised
             /\ ~DiskFellBack
             /\ d_err = d_disk.error
             /\ ReadLocations = <<Disk>>
          \/ /\ d_skip_disk \/ DiskFellBack
             /\ d_remote.raised
             /\ d_err = d_remote.error
             /\ WasRead(Remote)
    /\ d_pc = "returned" =>
          \/ /\ ~d_skip_disk
             /\ ~d_disk.raised
             /\ d_df.table = d_disk.value
             /\ ReadLocations = <<Disk>>
          \/ /\ d_skip_disk \/ DiskFellBack
             /\ ~d_remote.raised
             /\ d_df.table = d_remote.value
             /\ WasRead(Remote)

\* a step reads at most one location, and no step follows the remote read
\* but the return of its table
NoRetry ==
    /\ Len(d_reads') <= Len(d_reads) + 1
    /\ WasRead(Remote) => d_reads' = d_reads
    /\ d_pc \in {"returned", "raised"} => d_pc' = d_pc

\* C25: load reads the disk first, and the remote location only after the
\* disk read failed with not-found or parse-failure, or when skip_disk is
\* set, in which case the disk is never read; any other exception of the
\* disk read leaves load without a remote read; the remote location is read
\* at most once; and an exception of the remote read leaves load.
C25_DiskThenRemoteOnce ==
    /\ [](ReadsInOrder /\ EndsAsRead)
    /\ [][NoRetry]_vars

\* load raised the exception of the remote read, made after the disk read
\* failed with a parse failure
C25_Witness ==
    /\ d_pc = "raised"
    /\ ~d_skip_disk
    /\ d_disk.raised
    /\ d_disk.error.type = "ParserError"
    /\ ReadLocations = <<Disk, Remote>>
    /\ d_err = d_remote.error

\* load returned the remote table without reading the disk
C25_SkipWitness ==
    /\ d_pc = "returned"
    /\ d_skip_disk
    /\ ReadLocations = <<Remote>>
    /\ d_df.table = d_remote.value

=============================================================================
